---- MODULE Spec2Model ----
(***************************************************************************)
(* Voice-proximity game engines of musical-creatures.                      *)
(*                                                                         *)
(* Two builds of the page exist: one drives the note-sequence game         *)
(* (game/sequenceGame.js, life model) and one drives "La Criatura          *)
(* Armonica" (game/creatureGame.js, doom model).  Both keep their session  *)
(* in module-level variables and are ticked once per display frame.        *)
(*                                                                         *)
(* Number representation (the code uses IEEE doubles):                     *)
(*   frequencies   tenths of a hertz            (HzScale   = 10)           *)
(*   MIDI, errors  hundredths of a semitone     (MidiScale = 100)          *)
(*   dt, timers    milliseconds                                            *)
(*   seconds       1/10000 s                    (SecScale  = 10000)        *)
(*   life          millionths                   (LifeScale = 1000000)      *)
(*   energy        thousandths                  (EnergyScale = 1000)       *)
(* The animation clock `time` and the particle list feed only the          *)
(* renderer and are not part of the model.                                 *)
(*                                                                         *)
(* Specifications:                                                         *)
(*   Spec           both engines, ticked with voices around the thresholds *)
(*   TimingSpec     the sequence game with the frame time summed by the    *)
(*                  caller (variable clock), explored to the end of a game *)
(*   MaxErrorSpec   calculateMaxError of both engines on bounded arrays    *)
(*   ValiditySpec   both engines, ticked with valid and invalid entries    *)
(*   DoomSpec       the creature game over whole rounds, to the doom limit *)
(*   NoteSpec       note names taken to frequencies and back to names      *)
(*   PageSpec       the page of the sequence game: start button, start()   *)
(*                  and the analyze loop (variable page)                   *)
(*   DetectorSpec   detectPitch and detectMultiplePitches on frames whose  *)
(*                  detector outputs are chosen freely                     *)
(*   ProgressSpec   one session of the sequence game ticked for ever, in   *)
(*                  silence once PLAYING is reached (weak fairness of the  *)
(*                  tick)                                                  *)
(*   GraphSpec      the history of the GraphRenderer under addDataPoint    *)
(*                  and clear (variable graph); the other specifications   *)
(*                  follow the game and leave the drawing out              *)
(***************************************************************************)
EXTENDS Integers, Sequences, FiniteSets

\* ------------------------------------------------------------------------
\* Scales of the fixed-point representation
\* ------------------------------------------------------------------------
HzScale == 10
MidiScale == 100
SecScale == 10000
LifeScale == 1000000
EnergyScale == 1000
\* JavaScript null
Null == 0 - 999999
\* JavaScript NaN, and Infinity (-Infinity is 0 - Infinity)
NaN == 0 - 999998
Infinity == 999999999
\* a freqsHz argument that is no array (undefined), written as an array
\* that holds this one mark
Undefined == 0 - 999997
\* a call that throws an exception instead of returning
Throws == 0 - 999996
NotAnArray == <<Undefined>>

\* ------------------------------------------------------------------------
\* Bounds of the exploration
\* ------------------------------------------------------------------------
\* evaluated ticks are explored while survivalTime / scoreSeconds is below
\* this many milliseconds
MaxSurvivalMs == 600

\* a session without target is ticked while currentNoteTimer is below this
\* many milliseconds
MaxIdleMs == 600

\* frame deltas handed to the update functions, in ms: half the grace
\* period, and one longer than every phase, the whole life and the doom
\* limit
DTs == {150, 12000}

\* frequency arrays handed to updateSequenceGame (tenths of Hz): silence,
\* an invalid value, and voices whose error against the first note G3
\* (1960) is 80, 88, 89, 179, 180, 200 and 201 hundredths of a semitone
SequenceFreqInputs ==
  { <<>>, <<0>>, <<2053>>, <<2062>>, <<2064>>, <<2174>>, <<2175>>,
    <<2200>>, <<2201>> }

\* frequency arrays handed to updateCreatureGame: errors against C4 of
\* 50, 55, 56, 134, 135, 150 and 151
CreatureFreqInputs ==
  { <<>>, <<0>>, <<2693>>, <<2701>>, <<2702>>, <<2827>>, <<2829>>,
    <<2853>>, <<2855>> }

\* notes the random target selection of the creature game may return
TargetChoices == {60, 62}

\* the validity exploration hands both engines these arrays in frames of
\* 150 ms: nothing valid (empty, zero, negative, NaN, the two
\* infinities, 79.9 Hz, 1200.1 Hz, no array), the limits 80 Hz and 1200 Hz,
\* a voice 0.8 from G3 and one 0.5 from C4, and those voices among invalid
\* entries
ValidityInputs ==
  { <<>>, <<0>>, <<0 - 1960>>, <<NaN>>, <<Infinity>>, <<0 - Infinity>>,
    <<799>>, <<12001>>, NotAnArray, <<799, 0, 12001>>,
    <<800>>, <<12000>>, <<2053>>, <<2693>>,
    <<0, 2053>>, <<2693, 12001>>, <<NaN, 2053, 799>>,
    <<Infinity, 700, 2693>> }

ValidityDTs == {150}

\* the max-error functions are applied to arrays of at most this many
\* entries
MaxVoices == 3

\* the entries: voices 0.1 above, 0.1 below, 1.9 above, 1.9 below and 1.0
\* above C4 (261.6 Hz), and 70 Hz, below the vocal range
ErrorVoices == {2632, 2602, 2921, 2345, 2773, 700}

\* the targets: C4 and G3 as frequencies (sequence game) and as MIDI notes
\* (creature game)
TargetFrequencies == {2616, 1960}

TargetNotes == {60, 55}

\* the timed exploration of the sequence game: PLAYING is ticked while the
\* frame time summed over the phase is below this many milliseconds
MaxPlayingMs == 7000

\* it hands over silence while the silence timer is below this many
\* milliseconds
MaxSilenceMs == 400

\* its frame deltas: inside the grace period, a divisor of every note
\* duration, and one longer than two notes and than two countdown steps
TimingDTs == {200, 300, 2400}

\* its frequency arrays: silence, and a voice more than 2 semitones away
\* from every note of the sequence
TimingFreqInputs == {<<>>, <<2201>>}

\* the doom exploration of the creature game: rounds are ticked while
\* scoreSeconds is below this many milliseconds
MaxScoreMs == 10000

\* its frame deltas: half of the calm hold that changes the target, and
\* half of the doom limit
DoomDTs == {1000, 5000}

\* its voices: C4 and D4, the two targets the exploration selects (each 2
\* semitones from the other target), and C#4, 1 semitone from both
DoomFreqInputs == {<<2616>>, <<2937>>, <<2773>>}

\* the pitch detectors are explored on frames that ask for at most this
\* many voices
MaxCount == 3

\* the time data handed to the detection: none, an empty frame, a frame of
\* 2048 samples (its length)
Frames == {Null, 0, 2048}

\* what YIN and AMDF hand to the single-voice detection (tenths of Hz)
DetectorOutputs ==
  { Null, Undefined, NaN, 0, 0 - 4400, Infinity, 0 - Infinity, 799, 800,
    4400, 10000, 10001, Throws }

\* what YIN hands to the multi-voice detection
PrimaryOutputs == {Null, 2200, Throws}

\* what AMDF hands to it: nothing, an exception, the octave of 220 Hz, and
\* voices 13.6 %, 15 % and 50 % above 220 Hz
AlternateOutputs == {Null, Throws, 4400, 2500, 2530, 3300}

\* the note-name conversions are explored on names whose octave has at
\* most this many digits and at most this value
MaxOctaveDigits == 2

MaxOctave == 7

\* first characters of the names: the seven letters, a lower-case one and
\* one that is no note
NameLetters == {"A", "B", "C", "D", "E", "F", "G", "a", "H"}

\* what follows the letter: nothing, a sharp, a flat
NameAccidentals == {<<>>, <<"#">>, <<"b">>}

\* the page is explored with at most this many calls of start() suspended
\* at the microphone initialisation
MaxPendingStarts == 2

\* frame deltas measured by analyze, in ms: two calls within one display
\* frame, and a frame longer than two notes
PageDTs == {0, 2400}

\* what YIN and AMDF hand to the detection on the page: nothing, a voice
\* more than 2 semitones from every note, an exception
PageYinOutputs == {Null, 2201, Throws}

PageAmdfOutputs == {Null, 2201}

\* Date.now() up to which points are added to the graph, in ms: three
\* frames past a full history
MaxHistoryMs == 3451

\* what the pages hand to addDataPoint: no voice, one voice, two voices
GraphFrequencies == {<<>>, <<2200>>, <<2200, 3300>>}

\* a single frequency handed over without an array
GraphNumbers == {3300}

\* time between two calls of Date.now(), in ms: the same millisecond, a
\* display frame
GraphSteps == {0, 17}

\* the progress exploration of the sequence game: frame deltas of 1 ms,
\* of half a countdown step and of a whole one
ProgressDTs == {1, 500, 1000}

\* what it hands over before PLAYING: silence, a voice more than 2
\* semitones from every note; and in PLAYING: silence, an invalid value
ProgressFreqInputs == {<<>>, <<2201>>, <<0>>}

\* ------------------------------------------------------------------------
\* Parameters of the sequence game
\* ------------------------------------------------------------------------
ENERGY_LERP == 15
FREQ_MIN == 80 * HzScale
FREQ_MAX == 1200 * HzScale
CALM_THRESHOLD == 80
TENSION_THRESHOLD == 200
GRACE_SILENCE == 300
TENSION_DRAIN_RATE == 5
CHAOS_DRAIN_RATE == 15
INITIAL_LIFE == 1 * LifeScale

CALMA_THRESHOLD_ENTER == CALM_THRESHOLD
CALMA_THRESHOLD_EXIT == (CALM_THRESHOLD * 11) \div 10
CAOS_THRESHOLD_ENTER == TENSION_THRESHOLD
CAOS_THRESHOLD_EXIT == (TENSION_THRESHOLD * 9) \div 10

\* note names are sequences of characters; durations are in tenths of s
NOTE_SEQUENCE ==
  << [note |-> <<"G", "3">>, duration |-> 6],
     [note |-> <<"C", "4">>, duration |-> 9],
     [note |-> <<"D", "4">>, duration |-> 6],
     [note |-> <<"E", "4">>, duration |-> 9],
     [note |-> <<"C", "4">>, duration |-> 12] >>

\* ------------------------------------------------------------------------
\* Utility functions
\* ------------------------------------------------------------------------
\* Math.log2 in 14-bit fixed point: Normalize brings f/den into [1,2),
\* FracBits extracts fraction bits by repeated squaring.
LogScale == 16384
LogBits == 12

RECURSIVE Pow2(_)
Pow2(n) == IF n <= 0 THEN 1 ELSE 2 * Pow2(n - 1)

RECURSIVE Normalize(_, _, _)
Normalize(f, den, k) ==
  IF f >= 2 * den THEN Normalize(f, 2 * den, k + 1)
  ELSE IF f < den THEN Normalize(2 * f, den, k - 1)
  ELSE <<f, den, k>>

RECURSIVE FracBits(_, _, _)
FracBits(x, n, acc) ==
  IF n = 0 THEN acc
  ELSE LET y == (x * x) \div LogScale
       IN  IF y >= 2 * LogScale
             THEN FracBits(y \div 2, n - 1, 2 * acc + 1)
             ELSE FracBits(y, n - 1, 2 * acc)

\* 12 * log2(f / ref) in hundredths of a semitone, rounded to nearest
SemitonesBetween(f, ref) ==
  LET nrm == Normalize(f, ref, 0)
      x   == (nrm[1] * LogScale) \div nrm[2]
      a   == FracBits(x, LogBits, 0)
  IN  12 * MidiScale * nrm[3]
        + (12 * MidiScale * a + Pow2(LogBits - 1)) \div Pow2(LogBits)

frequencyToMidi(freq) ==
  IF freq = Null \/ freq <= 0 THEN Null
  ELSE IF freq = Infinity THEN Infinity
  ELSE 69 * MidiScale + SemitonesBetween(freq, 440 * HzScale)

\* Math.pow(2, i / 12) for i in 0..11, in ten-thousandths
Pow2Twelfths ==
  << 10000, 10595, 11225, 11892, 12599, 13348,
     14142, 14983, 15874, 16818, 17818, 18877 >>

\* 440 * 2^(semitones/12) in tenths of Hz, rounded to nearest
SemitonesToFrequency(semitones) ==
  LET oct == semitones \div 12
      idx == semitones % 12
      num == 440 * HzScale * Pow2Twelfths[idx + 1]
  IN  IF oct >= 0
        THEN (num * Pow2(oct) + 5000) \div 10000
        ELSE (num + 5000 * Pow2(0 - oct)) \div (10000 * Pow2(0 - oct))

midiToFrequency(midi) ==
  IF midi = Null THEN Null
  ELSE SemitonesToFrequency(midi - 69)

noteNames == << <<"C">>, <<"C", "#">>, <<"D">>, <<"D", "#">>, <<"E">>,
                <<"F">>, <<"F", "#">>, <<"G">>, <<"G", "#">>, <<"A">>,
                <<"A", "#">>, <<"B">> >>

Digits == << "0", "1", "2", "3", "4", "5", "6", "7", "8", "9" >>

IsDigit(c) == \E d \in 1..10 : Digits[d] = c

DigitValue(c) == (CHOOSE d \in 1..10 : Digits[d] = c) - 1

RECURSIVE parseInt(_)
parseInt(ds) ==
  IF ds = <<>> THEN 0
  ELSE 10 * parseInt(SubSeq(ds, 1, Len(ds) - 1)) + DigitValue(ds[Len(ds)])

\* index of note in noteNames (0-based), -1 when absent
IndexOfNote(note) ==
  IF \E i \in 1..12 : noteNames[i] = note
    THEN (CHOOSE i \in 1..12 : noteNames[i] = note) - 1
    ELSE 0 - 1

noteNameToFrequency(noteName) ==
  LET n       == Len(noteName)
      sharp   == n >= 2 /\ noteName[2] = "#"
      noteLen == IF sharp THEN 2 ELSE 1
      note    == SubSeq(noteName, 1, noteLen)
      octStr  == SubSeq(noteName, noteLen + 1, n)
      match   == /\ n >= 2
                 /\ noteName[1] \in {"A", "B", "C", "D", "E", "F", "G"}
                 /\ octStr # <<>>
                 /\ \A i \in 1..Len(octStr) : IsDigit(octStr[i])
  IN  IF ~match THEN Null
      ELSE IF IndexOfNote(note) = 0 - 1 THEN Null
      ELSE SemitonesToFrequency((parseInt(octStr) - 4) * 12
                                  + (IndexOfNote(note) - 9))

\* the decimal digits of an integer, as a template literal prints it
RECURSIVE toString(_)
toString(n) ==
  IF n < 0 THEN <<"-">> \o toString(0 - n)
  ELSE IF n < 10 THEN <<Digits[n + 1]>>
  ELSE toString(n \div 10) \o <<Digits[(n % 10) + 1]>>

\* variant: octaves counted from MIDI 0
midiToNoteName_FromZero(midi) ==
  IF midi = Null \/ midi = NaN THEN Null
  ELSE LET noteNumber == (midi + MidiScale \div 2) \div MidiScale
       IN  noteNames[(noteNumber % 12) + 1] \o toString(noteNumber \div 12)

\* Math.round is floor(x + 0.5); % 12 of TLA+ is ((n % 12) + 12) % 12
midiToNoteName(midi) ==
  IF midi = Null \/ midi = NaN THEN Null
  ELSE LET noteNumber == (midi + MidiScale \div 2) \div MidiScale
           octave     == (noteNumber \div 12) - 1
           noteIndex  == noteNumber % 12
       IN  noteNames[noteIndex + 1] \o toString(octave)

clamp(value, min, max) ==
  LET lo == IF max < value THEN max ELSE value
  IN  IF min > lo THEN min ELSE lo

\* variant: interpolates from the end towards the start
lerp_FromEnd(a, b, t) == b + ((a - b) * t) \div 100

\* t is given in hundredths
lerp(a, b, t) == a + ((b - a) * t) \div 100

Array_isArray(value) == value # NotAnArray

\* a number that is neither NaN nor an infinity
isFinite(value) ==
  value # NaN /\ value # Infinity /\ value # 0 - Infinity

\* variant: a frequency outside the band is moved to its nearest limit
filterValidFrequencies_Clamped(freqsHz) ==
  IF ~Array_isArray(freqsHz) THEN <<>>
  ELSE LET kept == SelectSeq(freqsHz, LAMBDA freq :
                     freq # 0 /\ freq # Null /\ freq # Undefined
                       /\ freq # NaN /\ isFinite(freq))
       IN  [i \in 1..Len(kept) |-> clamp(kept[i], FREQ_MIN, FREQ_MAX)]

filterValidFrequencies(freqsHz) ==
  IF ~Array_isArray(freqsHz) THEN <<>>
  ELSE SelectSeq(freqsHz, LAMBDA freq :
         /\ freq # 0 /\ freq # Null /\ freq # Undefined
         /\ freq # NaN
         /\ isFinite(freq)
         /\ freq >= FREQ_MIN
         /\ freq <= FREQ_MAX)

Abs(x) == IF x < 0 THEN 0 - x ELSE x

\* variant: the smallest error is returned
RECURSIVE MaxOf_Min(_)
MaxOf_Min(s) ==
  IF Len(s) = 1 THEN s[1]
  ELSE LET m == MaxOf_Min(Tail(s)) IN IF s[1] < m THEN s[1] ELSE m

RECURSIVE MaxOf(_)
MaxOf(s) ==
  IF Len(s) = 1 THEN s[1]
  ELSE LET m == MaxOf(Tail(s)) IN IF s[1] > m THEN s[1] ELSE m

\* frequencyToMidi of the frequencies the exploration uses, computed once
Range(s) == {s[i] : i \in 1..Len(s)}

ExploredFrequencies ==
  UNION {Range(a) : a \in SequenceFreqInputs \cup CreatureFreqInputs
                          \cup ValidityInputs \cup DoomFreqInputs}
    \cup ErrorVoices \cup TargetFrequencies
    \cup {noteNameToFrequency(NOTE_SEQUENCE[i].note) :
             i \in 1..Len(NOTE_SEQUENCE)}

MidiTable ==
  [f \in {x \in ExploredFrequencies : x > 0 /\ x < Infinity} |->
     frequencyToMidi(f)]

Midi(freq) ==
  IF freq \in DOMAIN MidiTable THEN MidiTable[freq]
  ELSE frequencyToMidi(freq)

calculateMaxError(freqsHz, targetFreq) ==
  LET validFreqs == filterValidFrequencies(freqsHz)
      targetMidi0 == Midi(targetFreq)
      errors == [i \in 1..Len(validFreqs) |->
                   Abs(Midi(validFreqs[i]) - targetMidi0)]
  IN  IF Len(validFreqs) = 0 THEN Null
      ELSE IF targetMidi0 = Null THEN Null
      ELSE MaxOf(errors)

\* dt / 1000, in units of 1/SecScale s
dtSeconds(dt) == dt * (SecScale \div 1000)

\* ------------------------------------------------------------------------
\* Parameters of the creature game (creatureGame.js); names that clash
\* with the sequence game carry the prefix creature_
\* ------------------------------------------------------------------------
creature_CALM_THRESHOLD == 50
UNSTABLE_THRESHOLD == 150
CHAOS_MAX == 10 * SecScale
UNSTABLE_WEIGHT == 50
CALM_HOLD_FOR_TARGET_CHANGE == 2000
creature_GRACE_SILENCE == 300
TARGET_CHANGE_REWARD == 1 * SecScale

creature_CALMA_THRESHOLD_ENTER == creature_CALM_THRESHOLD
creature_CALMA_THRESHOLD_EXIT == (creature_CALM_THRESHOLD * 11) \div 10
creature_CAOS_THRESHOLD_ENTER == UNSTABLE_THRESHOLD
creature_CAOS_THRESHOLD_EXIT == (UNSTABLE_THRESHOLD * 9) \div 10

creature_calculateMaxError(freqsHz, targetMidi0) ==
  LET validFreqs == filterValidFrequencies(freqsHz)
      errors == [i \in 1..Len(validFreqs) |->
                   Abs(Midi(validFreqs[i]) - targetMidi0)]
  IN  IF Len(validFreqs) = 0 THEN Null ELSE MaxOf(errors)

\* ------------------------------------------------------------------------
\* The note synthesizer (audio/noteSynthesizer.js)
\* ------------------------------------------------------------------------
\* variant: the cue sounds an octave above the name
synth_noteNameToFrequency_OctaveUp(noteName) ==
  LET n       == Len(noteName)
      sharp   == n >= 2 /\ noteName[2] = "#"
      noteLen == IF sharp THEN 2 ELSE 1
      note    == SubSeq(noteName, 1, noteLen)
      octStr  == SubSeq(noteName, noteLen + 1, n)
      match   == /\ n >= 2
                 /\ noteName[1] \in {"A", "B", "C", "D", "E", "F", "G"}
                 /\ octStr # <<>>
                 /\ \A i \in 1..Len(octStr) : IsDigit(octStr[i])
  IN  IF ~match THEN Null
      ELSE IF IndexOfNote(note) = 0 - 1 THEN Null
      ELSE SemitonesToFrequency((parseInt(octStr) - 3) * 12
                                  + (IndexOfNote(note) - 9))

\* the synthesizer's own noteNameToFrequency: the name is matched against
\* /^([A-G]#?)(\d+)$/, the semitones are counted from A4
synth_noteNameToFrequency(noteName) ==
  LET n       == Len(noteName)
      sharp   == n >= 2 /\ noteName[2] = "#"
      noteLen == IF sharp THEN 2 ELSE 1
      note    == SubSeq(noteName, 1, noteLen)
      octStr  == SubSeq(noteName, noteLen + 1, n)
      match   == /\ n >= 2
                 /\ noteName[1] \in {"A", "B", "C", "D", "E", "F", "G"}
                 /\ octStr # <<>>
                 /\ \A i \in 1..Len(octStr) : IsDigit(octStr[i])
      octave    == parseInt(octStr)
      noteIndex == IndexOfNote(note)
      semitones == (octave - 4) * 12 + (noteIndex - 9)
  IN  IF ~match THEN Null
      ELSE IF noteIndex = 0 - 1 THEN Null
      ELSE SemitonesToFrequency(semitones)

\* the oscillator playNote creates: its frequency, and the times of
\* oscillator.start and oscillator.stop (tenths of a second, as the
\* durations of NOTE_SEQUENCE)
playNote(frequency, duration, startTime) ==
  [frequency |-> frequency, start |-> startTime, stop |-> startTime + duration]

\* sequence.forEach of playSequence from entry index on: a note whose name
\* gives no frequency is left out and takes no time
RECURSIVE forEach(_, _, _)
forEach(sequence, index, currentTime) ==
  IF index > Len(sequence) THEN <<>>
  ELSE LET noteData  == sequence[index]
           frequency == synth_noteNameToFrequency(noteData.note)
       IN  IF frequency = Null
             THEN forEach(sequence, index + 1, currentTime)
             ELSE <<playNote(frequency, noteData.duration, currentTime)>>
                    \o forEach(sequence, index + 1,
                               currentTime + noteData.duration)

\* the oscillators scheduled from audioContext.currentTime on; the notes of
\* NOTE_SEQUENCE are names, never MIDI numbers
playSequence(currentTime, sequence) == forEach(sequence, 1, currentTime)

\* ------------------------------------------------------------------------
\* State
\* ------------------------------------------------------------------------
VARIABLES
  game,                      \* which build is running
  energy, currentState, graceSilenceTimer, isGameOver,     \* both engines
  currentNoteIndex, currentNoteTimer, sequenceNotes, gamePhase,
  initialPlaybackTimer, initialPlaybackNoteIndex,
  countdownTimer, countdownNumber, life, survivalTime,     \* sequence game
  oscillators,               \* the reference cue scheduled by the last start
  targetMidi, targetNoteName, targetFreq, scoreSeconds, chaosEqSeconds,
  calmHoldSeconds, lastValidFreqsCount,                    \* creature game
  last,                      \* the call that produced this state
  clock,                     \* frame time observed per phase, note and state
  page,                      \* the page object that drives the sequence game
  graph                      \* the history kept by the page's GraphRenderer

commonVars == <<energy, currentState, graceSilenceTimer, isGameOver>>

sequenceVars ==
  <<currentNoteIndex, currentNoteTimer, sequenceNotes, gamePhase,
    initialPlaybackTimer, initialPlaybackNoteIndex, countdownTimer,
    countdownNumber, life, survivalTime, oscillators>>

creatureVars ==
  <<targetMidi, targetNoteName, targetFreq, scoreSeconds, chaosEqSeconds,
    calmHoldSeconds, lastValidFreqsCount>>

sessionVars == <<commonVars, sequenceVars, creatureVars>>

vars == <<game, sessionVars, last, clock, page, graph>>

\* the exported function called last, its arguments, and the emotional
\* state it found
Call(op, freqsHz, dt) ==
  [op |-> op, freqsHz |-> freqsHz, dt |-> dt, prevState |-> currentState]

\* the frame time handed to the update function, summed by the caller:
\* over the COUNTDOWN phase (and its ticks, and since the number last
\* changed), over the PLAYING phase, since the current note became current,
\* and over the PLAYING ticks that were evaluated to CAOS
ClockZero ==
  [countdownMs |-> 0, countdownTicks |-> 0, sinceDecrementMs |-> 0,
   playingMs |-> 0, noteMs |-> 0, caosMs |-> 0]

\* VoicePitchGame after its constructor: not running, the start button
\* enabled, no call of start() suspended at its await, no
\* requestAnimationFrame callback pending, lastFrameTime null, and no call
\* of analyze() being made by start()
PageLoaded ==
  [isRunning |-> FALSE, startBtnDisabled |-> FALSE, awaiting |-> 0,
   frames |-> 0, lastFrameTime |-> Null, calling |-> FALSE]

\* GraphRenderer after its constructor: both histories empty; now is the
\* value Date.now() returned last
GraphConstructed ==
  [frequencyHistory |-> <<>>, timeHistory |-> <<>>, now |-> 0]

Init ==
  /\ page = PageLoaded
  /\ graph = GraphConstructed
  /\ game \in {"sequence", "creature"}
  /\ energy = (9 * EnergyScale) \div 10
  /\ currentState = "CALMA"
  /\ graceSilenceTimer = 0
  /\ isGameOver = FALSE
  /\ currentNoteIndex = 0
  /\ currentNoteTimer = 0
  /\ sequenceNotes = <<>>
  /\ oscillators = <<>>
  /\ gamePhase = "PLAYING_NOTES"
  /\ initialPlaybackTimer = 0
  /\ initialPlaybackNoteIndex = 0
  /\ countdownTimer = 0
  /\ countdownNumber = 3
  /\ life = INITIAL_LIFE
  /\ survivalTime = 0
  /\ targetMidi = Null
  /\ targetNoteName = Null
  /\ targetFreq = Null
  /\ scoreSeconds = 0
  /\ chaosEqSeconds = 0
  /\ calmHoldSeconds = 0
  /\ lastValidFreqsCount = 0
  /\ last = Call("load", <<>>, 0)
  /\ clock = ClockZero

\* ------------------------------------------------------------------------
\* Sequence game
\* ------------------------------------------------------------------------
\* getCurrentTarget: null when the index is outside sequenceNotes
NoCurrentTarget ==
  currentNoteIndex < 0 \/ currentNoteIndex >= Len(sequenceNotes)

getCurrentTarget == sequenceNotes[currentNoteIndex + 1]

\* variant: a note is still demonstrated at the instant its time ends
RECURSIVE PlaybackNoteIndex_Inclusive(_, _, _)
PlaybackNoteIndex_Inclusive(timer, i, accumulatedTime) ==
  LET noteDuration == NOTE_SEQUENCE[i + 1].duration * 100
  IN  IF timer <= accumulatedTime + noteDuration THEN i
      ELSE IF i + 1 < Len(NOTE_SEQUENCE)
        THEN PlaybackNoteIndex_Inclusive(timer, i + 1,
                                         accumulatedTime + noteDuration)
        ELSE i

\* the note being demonstrated: the loop over NOTE_SEQUENCE
RECURSIVE PlaybackNoteIndex(_, _, _)
PlaybackNoteIndex(timer, i, accumulatedTime) ==
  LET noteDuration == NOTE_SEQUENCE[i + 1].duration * 100
  IN  IF timer < accumulatedTime + noteDuration THEN i
      ELSE IF i + 1 < Len(NOTE_SEQUENCE)
        THEN PlaybackNoteIndex(timer, i + 1, accumulatedTime + noteDuration)
        ELSE i

RECURSIVE SumDurations(_)
SumDurations(i) ==
  IF i = 0 THEN 0 ELSE SumDurations(i - 1) + NOTE_SEQUENCE[i].duration

totalDuration == SumDurations(Len(NOTE_SEQUENCE)) * 100

countdownInterval == 1000

\* variant: the time left over when the demo ends is spent on the
\* countdown within the same tick
PlayingNotesPhase_SpendsRest(dt) ==
  LET timer == initialPlaybackTimer + dt
      rest  == timer - totalDuration
  IN  /\ IF timer >= totalDuration
           THEN /\ gamePhase' =
                     IF rest >= 3 * countdownInterval THEN "PLAYING"
                                                      ELSE "COUNTDOWN"
                /\ countdownTimer' = 0
                /\ countdownNumber' =
                     IF rest >= 3 * countdownInterval THEN 0 ELSE 3
                /\ initialPlaybackTimer' = 0
                /\ initialPlaybackNoteIndex' = 0 - 1
                /\ currentNoteIndex' = 0
                /\ currentNoteTimer' = 0
           ELSE /\ initialPlaybackTimer' = timer
                /\ initialPlaybackNoteIndex' = PlaybackNoteIndex(timer, 0, 0)
                /\ UNCHANGED <<gamePhase, countdownTimer, countdownNumber,
                               currentNoteIndex, currentNoteTimer>>
      /\ UNCHANGED <<commonVars, sequenceNotes, oscillators, life, survivalTime>>

\* variant: the demonstration index is left on the last note when the
\* demonstration ends
PlayingNotesPhase_LeavesIndex(dt) ==
  LET timer == initialPlaybackTimer + dt
  IN  /\ IF timer >= totalDuration
           THEN /\ gamePhase' = "COUNTDOWN"
                /\ countdownTimer' = 0
                /\ countdownNumber' = 3
                /\ initialPlaybackTimer' = 0
                /\ initialPlaybackNoteIndex' = PlaybackNoteIndex(timer, 0, 0)
                /\ currentNoteIndex' = 0
                /\ currentNoteTimer' = 0
           ELSE /\ initialPlaybackTimer' = timer
                /\ initialPlaybackNoteIndex' = PlaybackNoteIndex(timer, 0, 0)
                /\ UNCHANGED <<gamePhase, countdownTimer, countdownNumber,
                               currentNoteIndex, currentNoteTimer>>
      /\ UNCHANGED <<commonVars, sequenceNotes, oscillators, life, survivalTime>>

PlayingNotesPhase(dt) ==
  LET timer == initialPlaybackTimer + dt
  IN  /\ IF timer >= totalDuration
           THEN /\ gamePhase' = "COUNTDOWN"
                /\ countdownTimer' = 0
                /\ countdownNumber' = 3
                /\ initialPlaybackTimer' = 0
                /\ initialPlaybackNoteIndex' = 0 - 1
                /\ currentNoteIndex' = 0
                /\ currentNoteTimer' = 0
           ELSE /\ initialPlaybackTimer' = timer
                /\ initialPlaybackNoteIndex' = PlaybackNoteIndex(timer, 0, 0)
                /\ UNCHANGED <<gamePhase, countdownTimer, countdownNumber,
                               currentNoteIndex, currentNoteTimer>>
      /\ UNCHANGED <<commonVars, sequenceNotes, oscillators, life, survivalTime>>

\* variant: a tick spends all the whole intervals it covers
CountdownPhase_CatchUp(dt) ==
  LET timer == countdownTimer + dt
      steps == timer \div countdownInterval
      left  == IF steps >= countdownNumber THEN 0 ELSE countdownNumber - steps
  IN  /\ countdownTimer' = IF steps > 0 THEN 0 ELSE timer
      /\ countdownNumber' = left
      /\ gamePhase' = IF left = 0 THEN "PLAYING" ELSE gamePhase
      /\ UNCHANGED <<commonVars, sequenceNotes, oscillators, life, survivalTime,
                     currentNoteIndex, currentNoteTimer,
                     initialPlaybackTimer, initialPlaybackNoteIndex>>

\* variant: the countdown starts again at 3 when it has run out
CountdownPhase_Again(dt) ==
  LET timer == countdownTimer + dt
  IN  /\ IF timer >= countdownInterval
           THEN /\ countdownTimer' = 0
                /\ countdownNumber' =
                     IF countdownNumber - 1 <= 0 THEN 3
                     ELSE countdownNumber - 1
                /\ UNCHANGED gamePhase
           ELSE /\ countdownTimer' = timer
                /\ UNCHANGED <<countdownNumber, gamePhase>>
      /\ UNCHANGED <<commonVars, sequenceNotes, oscillators, life, survivalTime,
                     currentNoteIndex, currentNoteTimer,
                     initialPlaybackTimer, initialPlaybackNoteIndex>>

CountdownPhase(dt) ==
  LET timer == countdownTimer + dt
  IN  /\ IF timer >= countdownInterval
           THEN /\ countdownTimer' = 0
                /\ IF countdownNumber - 1 <= 0
                     THEN gamePhase' = "PLAYING" /\ countdownNumber' = 0
                     ELSE /\ countdownNumber' = countdownNumber - 1
                          /\ UNCHANGED gamePhase
           ELSE /\ countdownTimer' = timer
                /\ UNCHANGED <<countdownNumber, gamePhase>>
      /\ UNCHANGED <<commonVars, sequenceNotes, oscillators, life, survivalTime,
                     currentNoteIndex, currentNoteTimer,
                     initialPlaybackTimer, initialPlaybackNoteIndex>>

\* variant: no grace period, silence is CAOS at once
SilenceOrError_NoGrace(validFreqsCount, timer, error) ==
  IF validFreqsCount = 0 THEN 999 * MidiScale ELSE error

\* variant: the grace period ends only after GRACE_SILENCE is exceeded
SilenceOrError_After(validFreqsCount, timer, error) ==
  IF validFreqsCount = 0
    THEN IF timer > GRACE_SILENCE THEN 999 * MidiScale ELSE Null
    ELSE error

\* max error of an evaluated tick, Null while the grace period runs
SilenceOrError(validFreqsCount, timer, error) ==
  IF validFreqsCount = 0
    THEN IF timer >= GRACE_SILENCE THEN 999 * MidiScale ELSE Null
    ELSE error

\* variant: the error ratio is not clamped
Proximity_Unclamped(maxError) ==
  EnergyScale - (maxError * EnergyScale) \div (2 * MidiScale)

Proximity(maxError) ==
  EnergyScale - clamp((maxError * EnergyScale) \div (2 * MidiScale),
                      0, EnergyScale)

\* variant: CALMA is not held between CALMA_THRESHOLD_ENTER and _EXIT
NewState_NoCalmHold(prevState, maxError) ==
  IF maxError <= CALMA_THRESHOLD_ENTER THEN "CALMA"
  ELSE IF maxError > CAOS_THRESHOLD_ENTER THEN "CAOS"
  ELSE IF prevState = "CAOS" /\ maxError >= CAOS_THRESHOLD_EXIT
    THEN "CAOS"
  ELSE "TENSION"

\* variant: CALMA is entered only below CALMA_THRESHOLD_ENTER
NewState_StrictEnter(prevState, maxError) ==
  IF maxError < CALMA_THRESHOLD_ENTER THEN "CALMA"
  ELSE IF maxError > CAOS_THRESHOLD_ENTER THEN "CAOS"
  ELSE IF prevState = "CALMA" /\ maxError <= CALMA_THRESHOLD_EXIT
    THEN "CALMA"
  ELSE IF prevState = "CAOS" /\ maxError >= CAOS_THRESHOLD_EXIT
    THEN "CAOS"
  ELSE "TENSION"

\* variant: the calm band is held from TENSION as well
NewState_HeldFromTension(prevState, maxError) ==
  IF maxError <= CALMA_THRESHOLD_ENTER THEN "CALMA"
  ELSE IF maxError > CAOS_THRESHOLD_ENTER THEN "CAOS"
  ELSE IF prevState # "CAOS" /\ maxError <= CALMA_THRESHOLD_EXIT
    THEN "CALMA"
  ELSE IF prevState = "CAOS" /\ maxError >= CAOS_THRESHOLD_EXIT
    THEN "CAOS"
  ELSE "TENSION"

NewState(prevState, maxError) ==
  IF maxError <= CALMA_THRESHOLD_ENTER THEN "CALMA"
  ELSE IF maxError > CAOS_THRESHOLD_ENTER THEN "CAOS"
  ELSE IF prevState = "CALMA" /\ maxError <= CALMA_THRESHOLD_EXIT
    THEN "CALMA"
  ELSE IF prevState = "CAOS" /\ maxError >= CAOS_THRESHOLD_EXIT
    THEN "CAOS"
  ELSE "TENSION"

\* variant: the drain follows the state found by the tick
DrainLife_PrevState(state, dt) ==
  IF currentState = "CAOS"
    THEN life - (dtSeconds(dt) * CHAOS_DRAIN_RATE)
  ELSE IF currentState = "TENSION"
    THEN life - (dtSeconds(dt) * TENSION_DRAIN_RATE)
  ELSE life

\* variant: TENSION drains like CAOS and CAOS at twice its rate
DrainLife_Doubled(state, dt) ==
  IF state = "CAOS"
    THEN life - (dtSeconds(dt) * 2 * CHAOS_DRAIN_RATE)
  ELSE IF state = "TENSION"
    THEN life - (dtSeconds(dt) * CHAOS_DRAIN_RATE)
  ELSE life

\* life after the drain of one tick, before clamping
DrainLife(state, dt) ==
  IF state = "CAOS"
    THEN life - (dtSeconds(dt) * CHAOS_DRAIN_RATE)
  ELSE IF state = "TENSION"
    THEN life - (dtSeconds(dt) * TENSION_DRAIN_RATE)
  ELSE life

\* variant: life is limited from above only
LimitLife_Upper(value) == IF value > INITIAL_LIFE THEN INITIAL_LIFE ELSE value

LimitLife(value) == clamp(value, 0, INITIAL_LIFE)

\* variant: the duration is compared in seconds with a timer in ms
NoteDurationMs_Seconds(index) == NOTE_SEQUENCE[index + 1].duration \div 10

\* variant: a note lasts twice as long while the state is not CALMA
NoteDurationMs_Uneasy(index) ==
  IF currentState = "CALMA"
    THEN NOTE_SEQUENCE[index + 1].duration * 100
    ELSE 2 * NOTE_SEQUENCE[index + 1].duration * 100

\* NOTE_SEQUENCE[index].duration * 1000
NoteDurationMs(index) == NOTE_SEQUENCE[index + 1].duration * 100

\* variant: the game ends only when life falls below 0
LifeExhausted_Strict(value) == value < 0

\* the game-over test on the clamped life
LifeExhausted(value) == value <= 0

PlayingPhase(freqsHz, dt) ==
  LET timer         == currentNoteTimer + dt
      noteDuration  == NoteDurationMs(currentNoteIndex)
      advance       == ~NoCurrentTarget /\ timer >= noteDuration
      validFreqs    == filterValidFrequencies(freqsHz)
      silence       == graceSilenceTimer + dt
      maxError      == SilenceOrError(Len(validFreqs), silence,
                         calculateMaxError(validFreqs,
                                           getCurrentTarget.frequency))
      newState      == NewState(currentState, maxError)
      newLife       == LimitLife(DrainLife(newState, dt))
  IN  /\ currentNoteTimer' = IF advance THEN 0 ELSE timer
      /\ currentNoteIndex' =
           IF advance THEN (currentNoteIndex + 1) % Len(NOTE_SEQUENCE)
                      ELSE currentNoteIndex
      /\ UNCHANGED <<sequenceNotes, oscillators, initialPlaybackTimer,
                     initialPlaybackNoteIndex, countdownTimer,
                     countdownNumber>>
      /\ IF NoCurrentTarget
           THEN UNCHANGED <<commonVars, gamePhase, life, survivalTime>>
           ELSE
             /\ graceSilenceTimer' =
                  IF Len(validFreqs) = 0 THEN silence ELSE 0
             /\ IF maxError = Null
                  THEN UNCHANGED <<energy, currentState, isGameOver,
                                   gamePhase, life, survivalTime>>
                  ELSE
                    /\ energy' = lerp(energy, Proximity(maxError),
                                      ENERGY_LERP)
                    /\ currentState' = newState
                    /\ survivalTime' = survivalTime + dtSeconds(dt)
                    /\ life' = newLife
                    /\ isGameOver' = LifeExhausted(newLife)
                    /\ gamePhase' =
                         IF LifeExhausted(newLife) THEN "GAME_OVER"
                                                   ELSE gamePhase

\* variant: the update does not test for the end of the game
SequenceGameEnded_NoGuard == FALSE

SequenceGameEnded == isGameOver \/ gamePhase = "GAME_OVER"

\* variant: the state machine runs in every phase
updateSequenceGame_Ungated(freqsHz, dt) ==
  /\ game = "sequence"
  /\ last' = Call("update", freqsHz, dt)
  /\ UNCHANGED <<game, creatureVars>>
  /\ IF SequenceGameEnded THEN UNCHANGED <<commonVars, sequenceVars>>
     ELSE PlayingPhase(freqsHz, dt)

updateSequenceGame(freqsHz, dt) ==
  /\ game = "sequence"
  /\ last' = Call("update", freqsHz, dt)
  /\ UNCHANGED <<game, creatureVars>>
  /\ IF SequenceGameEnded THEN UNCHANGED <<commonVars, sequenceVars>>
     ELSE IF gamePhase = "PLAYING_NOTES" THEN PlayingNotesPhase(dt)
     ELSE IF gamePhase = "COUNTDOWN" THEN CountdownPhase(dt)
     ELSE PlayingPhase(freqsHz, dt)

PrepareSequence ==
  [i \in 1..Len(NOTE_SEQUENCE) |->
     [note      |-> NOTE_SEQUENCE[i].note,
      frequency |-> noteNameToFrequency(NOTE_SEQUENCE[i].note),
      duration  |-> NOTE_SEQUENCE[i].duration]]

\* variant: a start leaves the life of the previous game
SequenceStart_KeepsLife(op) ==
  /\ game = "sequence"
  /\ last' = Call(op, <<>>, 0)
  /\ sequenceNotes' = PrepareSequence
  /\ oscillators' = playSequence(0, NOTE_SEQUENCE)
  /\ currentNoteIndex' = 0
  /\ currentNoteTimer' = 0
  /\ life' = life
  /\ survivalTime' = 0
  /\ isGameOver' = FALSE
  /\ graceSilenceTimer' = 0
  /\ energy' = (9 * EnergyScale) \div 10
  /\ currentState' = "CALMA"
  /\ gamePhase' = "PLAYING_NOTES"
  /\ initialPlaybackTimer' = 0
  /\ initialPlaybackNoteIndex' = 0
  /\ countdownTimer' = 0
  /\ countdownNumber' = 3
  /\ UNCHANGED <<game, creatureVars>>

SequenceStart(op) ==
  /\ game = "sequence"
  /\ last' = Call(op, <<>>, 0)
  /\ sequenceNotes' = PrepareSequence
  /\ oscillators' = playSequence(0, NOTE_SEQUENCE)
  /\ currentNoteIndex' = 0
  /\ currentNoteTimer' = 0
  /\ life' = INITIAL_LIFE
  /\ survivalTime' = 0
  /\ isGameOver' = FALSE
  /\ graceSilenceTimer' = 0
  /\ energy' = (9 * EnergyScale) \div 10
  /\ currentState' = "CALMA"
  /\ gamePhase' = "PLAYING_NOTES"
  /\ initialPlaybackTimer' = 0
  /\ initialPlaybackNoteIndex' = 0
  /\ countdownTimer' = 0
  /\ countdownNumber' = 3
  /\ UNCHANGED <<game, creatureVars>>

startSequenceGame == SequenceStart("start") /\ UNCHANGED <<clock, page, graph>>

resetSequenceGame == SequenceStart("reset") /\ UNCHANGED <<clock, page, graph>>

\* the ticks explored: a PLAYING session without target while
\* currentNoteTimer is below MaxIdleMs, an evaluated tick while survivalTime
\* is below MaxSurvivalMs
SequenceTickExplored(freqsHz, dt) ==
  (gamePhase = "PLAYING" /\ ~SequenceGameEnded) =>
    IF NoCurrentTarget THEN currentNoteTimer < MaxIdleMs
    ELSE \/ /\ Len(filterValidFrequencies(freqsHz)) = 0
            /\ graceSilenceTimer + dt < GRACE_SILENCE
         \/ survivalTime < dtSeconds(MaxSurvivalMs)

UpdateSequence ==
  \E f \in SequenceFreqInputs, dt \in DTs :
    /\ SequenceTickExplored(f, dt)
    /\ updateSequenceGame(f, dt)
    /\ UNCHANGED <<clock, page, graph>>

\* ------------------------------------------------------------------------
\* Creature game
\* ------------------------------------------------------------------------
\* Math.random() in selectRandomTargetNote: any note of the range
minMidi == 48
maxMidi == 83

selectRandomTargetNote == {m \in TargetChoices : minMidi <= m /\ m <= maxMidi}

\* variant: silence is tolerated for 500 ms
creature_SilenceOrError_Late(validFreqsCount, timer, error) ==
  IF validFreqsCount = 0
    THEN IF timer >= 500 THEN 999 * MidiScale ELSE Null
    ELSE error

creature_SilenceOrError(validFreqsCount, timer, error) ==
  IF validFreqsCount = 0
    THEN IF timer >= creature_GRACE_SILENCE THEN 999 * MidiScale ELSE Null
    ELSE error

creature_Proximity(maxError) ==
  EnergyScale - clamp((maxError * EnergyScale) \div (2 * MidiScale),
                      0, EnergyScale)

\* variant: a creature low on energy is not reported calm
creature_NewState_ByEnergy(prevState, maxError) ==
  IF maxError <= creature_CALMA_THRESHOLD_ENTER
    THEN IF energy < (7 * EnergyScale) \div 10 THEN "INESTABLE" ELSE "CALMA"
  ELSE IF maxError > creature_CAOS_THRESHOLD_ENTER THEN "CAOS"
  ELSE IF prevState = "CALMA" /\ maxError <= creature_CALMA_THRESHOLD_EXIT
    THEN "CALMA"
  ELSE IF prevState = "CAOS" /\ maxError >= creature_CAOS_THRESHOLD_EXIT
    THEN "CAOS"
  ELSE "INESTABLE"

creature_NewState(prevState, maxError) ==
  IF maxError <= creature_CALMA_THRESHOLD_ENTER THEN "CALMA"
  ELSE IF maxError > creature_CAOS_THRESHOLD_ENTER THEN "CAOS"
  ELSE IF prevState = "CALMA" /\ maxError <= creature_CALMA_THRESHOLD_EXIT
    THEN "CALMA"
  ELSE IF prevState = "CAOS" /\ maxError >= creature_CAOS_THRESHOLD_EXIT
    THEN "CAOS"
  ELSE "INESTABLE"

\* variant: INESTABLE accrues doom at the full rate
AccrueDoom_Unweighted(doom, state, dt) ==
  IF state \in {"CAOS", "INESTABLE"} THEN doom + dtSeconds(dt) ELSE doom

\* chaosEqSeconds after the accrual of one tick, before clamping
AccrueDoom(doom, state, dt) ==
  IF state = "CAOS" THEN doom + dtSeconds(dt)
  ELSE IF state = "INESTABLE"
    THEN doom + (dtSeconds(dt) * UNSTABLE_WEIGHT) \div 100
  ELSE doom

LimitDoom(value) == clamp(value, 0, CHAOS_MAX)

Max(a, b) == IF a > b THEN a ELSE b

\* the creature game's own midiToNoteName: Math.round, then octave and
\* index of the rounded number
creature_midiToNoteName(midi) ==
  IF midi = Null \/ midi = Undefined \/ midi = NaN THEN Null
  ELSE LET noteNumber == (midi + MidiScale \div 2) \div MidiScale
           octave     == (noteNumber \div 12) - 1
           noteIndex  == ((noteNumber % 12) + 12) % 12
       IN  noteNames[noteIndex + 1] \o toString(octave)

\* and its own midiToFrequency, for whole notes
creature_midiToFrequency(midi) ==
  IF midi = Null \/ midi = Undefined \/ midi = NaN THEN Null
  ELSE SemitonesToFrequency(midi - 69)

\* variant: the count of CALMA goes on in INESTABLE
HoldCalm_ThroughUnstable(newState, dt) ==
  IF newState # "CAOS" THEN calmHoldSeconds + dt ELSE 0

\* the consecutive time in CALMA after this tick, in ms
HoldCalm(newState, dt) ==
  IF newState = "CALMA" THEN calmHoldSeconds + dt ELSE 0

\* variant: the drawn note is taken even when it is the current target
TargetChanges_SameAllowed(hold, newState, newTargetMidi) ==
  hold >= CALM_HOLD_FOR_TARGET_CHANGE /\ newState = "CALMA"

\* the calm hold is long enough and the note drawn is not the current one
TargetChanges(hold, newState, newTargetMidi) ==
  /\ hold >= CALM_HOLD_FOR_TARGET_CHANGE
  /\ newState = "CALMA"
  /\ newTargetMidi # targetMidi

EvaluateCreature(maxError, dt, newTargetMidi) ==
  LET newState  == creature_NewState(currentState, maxError)
      hold      == HoldCalm(newState, dt)
      change    == TargetChanges(hold, newState, newTargetMidi)
      rewarded  == IF change
                     THEN Max(0, chaosEqSeconds - TARGET_CHANGE_REWARD)
                     ELSE chaosEqSeconds
      newDoom   == LimitDoom(AccrueDoom(rewarded, newState, dt))
  IN  /\ energy' = lerp(energy, creature_Proximity(maxError), ENERGY_LERP)
      /\ currentState' = newState
      /\ calmHoldSeconds' = IF change THEN 0 ELSE hold
      /\ targetMidi' = IF change THEN newTargetMidi ELSE targetMidi
      /\ targetNoteName' =
           IF change THEN creature_midiToNoteName(newTargetMidi * MidiScale)
                     ELSE targetNoteName
      /\ targetFreq' =
           IF change THEN creature_midiToFrequency(newTargetMidi)
                     ELSE targetFreq
      /\ scoreSeconds' = scoreSeconds + dtSeconds(dt)
      /\ chaosEqSeconds' = newDoom
      /\ isGameOver' = (isGameOver \/ newDoom >= CHAOS_MAX)

\* variant: the update does not test for a missing target
NoTargetMidi_Ignored == FALSE

\* no target has been selected yet
NoTargetMidi == targetMidi = Null

\* the body of updateCreatureGame: its effect on the session
CreatureTick(freqsHz, dt) ==
  LET validFreqs == filterValidFrequencies(freqsHz)
      silence    == graceSilenceTimer + dt
      maxError   == creature_SilenceOrError(Len(validFreqs), silence,
                      creature_calculateMaxError(validFreqs,
                                                 targetMidi * MidiScale))
  IN  /\ UNCHANGED sequenceVars
      /\ IF isGameOver \/ NoTargetMidi
           THEN UNCHANGED <<commonVars, creatureVars>>
           ELSE
             /\ graceSilenceTimer' =
                  IF Len(validFreqs) = 0 THEN silence ELSE 0
             /\ lastValidFreqsCount' =
                  IF Len(validFreqs) = 0
                    THEN IF silence >= creature_GRACE_SILENCE
                           THEN 0 ELSE lastValidFreqsCount
                    ELSE Len(validFreqs)
             /\ IF maxError = Null
                  THEN UNCHANGED <<energy, currentState, isGameOver,
                                   targetMidi, targetNoteName, targetFreq,
                                   scoreSeconds, chaosEqSeconds,
                                   calmHoldSeconds>>
                  ELSE \E newTargetMidi \in selectRandomTargetNote :
                         EvaluateCreature(maxError, dt, newTargetMidi)

updateCreatureGame(freqsHz, dt) ==
  /\ game = "creature"
  /\ last' = Call("update", freqsHz, dt)
  /\ UNCHANGED game
  /\ CreatureTick(freqsHz, dt)

\* variant: the doom of the previous round is kept
CreatureStart_KeepsDoom(op) ==
  /\ game = "creature"
  /\ last' = Call(op, <<>>, 0)
  /\ targetMidi' \in selectRandomTargetNote
  /\ targetNoteName' = creature_midiToNoteName(targetMidi' * MidiScale)
  /\ targetFreq' = creature_midiToFrequency(targetMidi')
  /\ scoreSeconds' = 0
  /\ isGameOver' = FALSE
  /\ calmHoldSeconds' = 0
  /\ graceSilenceTimer' = 0
  /\ energy' = (9 * EnergyScale) \div 10
  /\ currentState' = "CALMA"
  /\ lastValidFreqsCount' = 0
  /\ UNCHANGED <<game, sequenceVars, chaosEqSeconds>>

CreatureStart(op) ==
  /\ game = "creature"
  /\ last' = Call(op, <<>>, 0)
  /\ targetMidi' \in selectRandomTargetNote
  /\ targetNoteName' = creature_midiToNoteName(targetMidi' * MidiScale)
  /\ targetFreq' = creature_midiToFrequency(targetMidi')
  /\ scoreSeconds' = 0
  /\ chaosEqSeconds' = 0
  /\ isGameOver' = FALSE
  /\ calmHoldSeconds' = 0
  /\ graceSilenceTimer' = 0
  /\ energy' = (9 * EnergyScale) \div 10
  /\ currentState' = "CALMA"
  /\ lastValidFreqsCount' = 0
  /\ UNCHANGED <<game, sequenceVars>>

startGame == CreatureStart("start") /\ UNCHANGED <<clock, page, graph>>

resetGame == CreatureStart("reset") /\ UNCHANGED <<clock, page, graph>>

\* the ticks the exploration makes: every tick the engine ignores or
\* freezes on, and evaluated ticks while scoreSeconds is below the bound
CreatureTickExplored(freqsHz, dt) ==
  (~isGameOver /\ ~NoTargetMidi) =>
    \/ /\ Len(filterValidFrequencies(freqsHz)) = 0
       /\ graceSilenceTimer + dt < creature_GRACE_SILENCE
    \/ scoreSeconds < dtSeconds(MaxSurvivalMs)

UpdateCreature ==
  \E f \in CreatureFreqInputs, dt \in DTs :
    /\ CreatureTickExplored(f, dt)
    /\ updateCreatureGame(f, dt)
    /\ UNCHANGED <<clock, page, graph>>

Next ==
  \/ UpdateSequence
  \/ startSequenceGame
  \/ resetSequenceGame
  \/ UpdateCreature
  \/ startGame
  \/ resetGame

Spec == Init /\ [][Next]_vars

\* ------------------------------------------------------------------------
\* The sequence game under a caller that sums the frame time it hands over
\* ------------------------------------------------------------------------
\* the tick reaches the state machine: a voice, or silence past the grace
\* period
TickIsEvaluated(freqsHz, dt) ==
  \/ Len(filterValidFrequencies(freqsHz)) > 0
  \/ graceSilenceTimer + dt >= GRACE_SILENCE

\* clock after updateSequenceGame(freqsHz, dt): read together with the
\* session the call leaves
Observe(freqsHz, dt) ==
  IF SequenceGameEnded THEN clock
  ELSE IF gamePhase = "PLAYING_NOTES" THEN
    IF gamePhase' = "COUNTDOWN" THEN ClockZero ELSE clock
  ELSE IF gamePhase = "COUNTDOWN" THEN
    [clock EXCEPT
       !.countdownMs = @ + dt,
       !.countdownTicks = @ + 1,
       !.sinceDecrementMs =
          IF countdownNumber' # countdownNumber THEN 0 ELSE @ + dt]
  ELSE
    [clock EXCEPT
       !.countdownMs = 0,
       !.countdownTicks = 0,
       !.sinceDecrementMs = 0,
       !.playingMs = @ + dt,
       !.noteMs = IF currentNoteIndex' # currentNoteIndex THEN 0 ELSE @ + dt,
       !.caosMs =
          IF /\ ~NoCurrentTarget
             /\ TickIsEvaluated(freqsHz, dt)
             /\ currentState' = "CAOS"
            THEN @ + dt ELSE @]

\* the ticks explored: PLAYING below MaxPlayingMs; silence only in the
\* shortest frames and while the silence timer is below MaxSilenceMs
TimedTickExplored(freqsHz, dt) ==
  /\ clock.playingMs < MaxPlayingMs
  /\ Len(filterValidFrequencies(freqsHz)) = 0 =>
       /\ \A d \in TimingDTs : dt <= d
       /\ graceSilenceTimer < MaxSilenceMs

TimedUpdate ==
  \E f \in TimingFreqInputs, dt \in TimingDTs :
    /\ TimedTickExplored(f, dt)
    /\ updateSequenceGame(f, dt)
    /\ clock' = Observe(f, dt)
    /\ UNCHANGED <<page, graph>>

TimedStart ==
  /\ SequenceStart("start")
  /\ clock' = ClockZero
  /\ UNCHANGED <<page, graph>>

TimingInit ==
  /\ Init
  /\ game = "sequence"

TimingNext == TimedUpdate \/ TimedStart

TimingSpec == TimingInit /\ [][TimingNext]_vars

\* ------------------------------------------------------------------------
\* The max-error functions of both engines, applied to bounded arguments
\* ------------------------------------------------------------------------
\* calculateMaxError of the engine that is running
MaxErrorCall(freqsHz, target) ==
  [op |-> "calculateMaxError", freqsHz |-> freqsHz, target |-> target,
   result |->
     IF game = "sequence" THEN calculateMaxError(freqsHz, target)
     ELSE creature_calculateMaxError(freqsHz, target * MidiScale)]

\* a call with an empty array
CallWithoutVoice ==
  \E t \in IF game = "sequence" THEN TargetFrequencies ELSE TargetNotes :
    /\ last' = MaxErrorCall(<<>>, t)
    /\ UNCHANGED <<game, sessionVars, clock, page, graph>>

\* a call with the arguments of the one before and one more entry
CallWithOneMore ==
  \E v \in ErrorVoices :
    /\ last.op = "calculateMaxError"
    /\ Len(last.freqsHz) < MaxVoices
    /\ last' = MaxErrorCall(Append(last.freqsHz, v), last.target)
    /\ UNCHANGED <<game, sessionVars, clock, page, graph>>

MaxErrorNext == CallWithoutVoice \/ CallWithOneMore

MaxErrorSpec == Init /\ [][MaxErrorNext]_vars

\* ------------------------------------------------------------------------
\* Both engines ticked with arrays of valid and invalid entries
\* ------------------------------------------------------------------------
ValidityUpdateSequence ==
  \E f \in ValidityInputs, dt \in ValidityDTs :
    /\ SequenceTickExplored(f, dt)
    /\ updateSequenceGame(f, dt)
    /\ UNCHANGED <<clock, page, graph>>

ValidityUpdateCreature ==
  \E f \in ValidityInputs, dt \in ValidityDTs :
    /\ CreatureTickExplored(f, dt)
    /\ updateCreatureGame(f, dt)
    /\ UNCHANGED <<clock, page, graph>>

ValidityNext ==
  \/ ValidityUpdateSequence
  \/ startSequenceGame
  \/ ValidityUpdateCreature
  \/ startGame

ValiditySpec == Init /\ [][ValidityNext]_vars

\* ------------------------------------------------------------------------
\* The creature game over whole rounds: doom, calm hold, target changes
\* ------------------------------------------------------------------------
DoomUpdate ==
  \E f \in DoomFreqInputs, dt \in DoomDTs :
    /\ scoreSeconds < dtSeconds(MaxScoreMs)
    /\ updateCreatureGame(f, dt)
    /\ UNCHANGED <<clock, page, graph>>

DoomInit == Init /\ game = "creature"

DoomNext == DoomUpdate \/ startGame

DoomSpec == DoomInit /\ [][DoomNext]_vars

\* ------------------------------------------------------------------------
\* Pitch detection: audio/pitchDetection.js of the two builds
\* ------------------------------------------------------------------------
minFrequency == 80 * HzScale
maxFrequency == 1000 * HzScale

\* JavaScript truthiness of a number, null or undefined
Truthy(value) == value \notin {Null, Undefined, NaN, 0}

\* !timeData || timeData.length === 0
NoTimeData(timeData) == timeData = Null \/ timeData = 0

\* the YIN result that sends detectPitch to the fallback
Unusable(frequency) ==
  \/ ~Truthy(frequency)
  \/ frequency <= 0
  \/ frequency < minFrequency
  \/ frequency > maxFrequency

\* variant: no upper limit
InRange_NoUpper(frequency) ==
  Truthy(frequency) /\ frequency > 0 /\ frequency >= minFrequency

\* the range validation applied before a frequency is returned
InRange(frequency) ==
  /\ Truthy(frequency)
  /\ frequency > 0
  /\ frequency >= minFrequency
  /\ frequency <= maxFrequency

\* variant: the exception leaves the function
TryCatch_Rethrow(value, caught) == value

\* try { value } catch { caught }
TryCatch(value, caught) == IF value = Throws THEN caught ELSE value

Validated(frequency) ==
  IF frequency = Throws THEN Throws
  ELSE IF InRange(frequency) THEN frequency
  ELSE Null

\* single-voice build: YIN, then AMDF when YIN gave nothing usable; the
\* returned value and the number of AMDF calls made
detectPitch(timeData, yin, amdf) ==
  IF NoTimeData(timeData) THEN [result |-> Null, amdfCalls |-> 0]
  ELSE IF yin = Throws
    THEN [result |-> TryCatch(Throws, Null), amdfCalls |-> 0]
  ELSE IF Unusable(yin)
    THEN [result |-> TryCatch(Validated(amdf), Null), amdfCalls |-> 1]
  ELSE [result |-> TryCatch(Validated(yin), Null), amdfCalls |-> 0]

\* multi-voice build: the primary detector alone
multi_detectPitch(timeData, yin) ==
  IF NoTimeData(timeData) THEN Null
  ELSE TryCatch(Validated(yin), Null)

\* Math.round(n / d) for positive n and d
Round(n, d) == (2 * n + d) \div (2 * d)

\* separation below minSeparation (15 %) of the existing frequency
TooClose(pitch, existing) == 100 * Abs(pitch - existing) < 15 * existing

\* variant: octaves and other multiples are not recognised
Harmonic_Never(pitch, existing) == FALSE

\* pitch / existing, or its inverse, is within 0.1 of an integer
Harmonic(pitch, existing) ==
  \/ 10 * Abs(pitch - Round(pitch, existing) * existing) < existing
  \/ 10 * Abs(existing - Round(existing, pitch) * pitch) < pitch

isDuplicate(pitch, pitches) ==
  \E k \in 1..Len(pitches) :
    TooClose(pitch, pitches[k]) \/ Harmonic(pitch, pitches[k])

\* what the n-th call of the AMDF detector returns on this frame: the
\* outputs listed, nothing afterwards
Output(amdf, n) == IF n <= Len(amdf) THEN amdf[n] ELSE Null

\* the loop of findAdditionalPitches before attempt i (from 0); made is the
\* number of AMDF calls made before the loop
RECURSIVE AdditionalLoop(_, _, _, _, _, _)
AdditionalLoop(i, additionalPitches, amdf, made, existingPitches, count) ==
  IF ~(i < count /\ Len(additionalPitches) < count)
    THEN [pitches |-> additionalPitches, amdfCalls |-> i]
    ELSE
      LET pitch  == TryCatch(Output(amdf, made + i + 1), Null)
          accept == /\ InRange(pitch)
                    /\ ~isDuplicate(pitch,
                                    existingPitches \o additionalPitches)
      IN  AdditionalLoop(i + 1,
                         IF accept THEN Append(additionalPitches, pitch)
                         ELSE additionalPitches,
                         amdf, made, existingPitches, count)

findAdditionalPitches(amdf, made, existingPitches, count) ==
  AdditionalLoop(0, <<>>, amdf, made, existingPitches, count)

\* pitches.slice(0, count)
slice(pitches, count) ==
  SubSeq(pitches, 1, IF count < Len(pitches) THEN count ELSE Len(pitches))

\* multi-voice build: the array returned and the number of AMDF calls made
detectMultiplePitches(timeData, count, yin, amdf) ==
  IF NoTimeData(timeData) \/ count < 1
    THEN [result |-> <<>>, amdfCalls |-> 0]
    ELSE
      LET primaryPitch == multi_detectPitch(timeData, yin)
      IN  IF Truthy(primaryPitch)
            THEN
              LET more == IF count > 1
                            THEN findAdditionalPitches(amdf, 0,
                                   <<primaryPitch>>, count - 1)
                            ELSE [pitches |-> <<>>, amdfCalls |-> 0]
              IN  [result |-> slice(<<primaryPitch>> \o more.pitches, count),
                   amdfCalls |-> more.amdfCalls]
            ELSE
              LET amdfPitch == TryCatch(Validated(Output(amdf, 1)), Null)
                  more == IF amdfPitch # Null /\ count > 1
                            THEN findAdditionalPitches(amdf, 1,
                                   <<amdfPitch>>, count - 1)
                            ELSE [pitches |-> <<>>, amdfCalls |-> 0]
              IN  IF amdfPitch = Null
                    THEN [result |-> <<>>, amdfCalls |-> 1]
                    ELSE [result |->
                            slice(<<amdfPitch>> \o more.pitches, count),
                          amdfCalls |-> 1 + more.amdfCalls]

\* ------------------------------------------------------------------------
\* Both detections applied to frames
\* ------------------------------------------------------------------------
\* a detector threw while the frame before this one was served
ThrewBefore ==
  /\ last.op \in {"detectPitch", "detectMultiplePitches"}
  /\ last.threw

PitchCall(timeData, yin, amdf) ==
  LET out == detectPitch(timeData, yin, amdf)
  IN  [op |-> "detectPitch", timeData |-> timeData, yin |-> yin,
       amdf |-> amdf, result |-> out.result, amdfCalls |-> out.amdfCalls,
       threw |-> /\ ~NoTimeData(timeData)
                 /\ \/ yin = Throws
                    \/ out.amdfCalls = 1 /\ amdf = Throws,
       afterThrow |-> ThrewBefore]

MultiCall(timeData, count, yin, amdf) ==
  LET out == detectMultiplePitches(timeData, count, yin, amdf)
  IN  [op |-> "detectMultiplePitches", timeData |-> timeData,
       count |-> count, yin |-> yin, amdf |-> amdf,
       result |-> out.result, amdfCalls |-> out.amdfCalls,
       threw |-> /\ ~NoTimeData(timeData)
                 /\ count >= 1
                 /\ \/ yin = Throws
                    \/ \E n \in 1..out.amdfCalls : Output(amdf, n) = Throws,
       afterThrow |-> ThrewBefore]

\* a frame on which AMDF finds nothing
SingleVoiceFrame ==
  \E timeData \in Frames, yin \in DetectorOutputs :
    /\ last' = PitchCall(timeData, yin, Null)
    /\ UNCHANGED <<game, sessionVars, clock, page, graph>>

\* the same frame with another output of AMDF
SingleVoiceFallback ==
  \E amdf \in DetectorOutputs :
    /\ last.op = "detectPitch"
    /\ last.amdf = Null
    /\ last' = [PitchCall(last.timeData, last.yin, amdf)
                  EXCEPT !.afterThrow = last.afterThrow]
    /\ UNCHANGED <<game, sessionVars, clock, page, graph>>

MultiVoiceFrame ==
  \E timeData \in Frames, count \in 0..MaxCount, yin \in PrimaryOutputs :
    /\ last' = MultiCall(timeData, count, yin, <<>>)
    /\ UNCHANGED <<game, sessionVars, clock, page, graph>>

\* the same frame with one more output of AMDF
MultiVoiceOutput ==
  \E pitch \in AlternateOutputs :
    /\ last.op = "detectMultiplePitches"
    /\ ~NoTimeData(last.timeData)
    /\ Len(last.amdf) < last.count
    /\ last' = [MultiCall(last.timeData, last.count, last.yin,
                          Append(last.amdf, pitch))
                  EXCEPT !.afterThrow = last.afterThrow]
    /\ UNCHANGED <<game, sessionVars, clock, page, graph>>

DetectorNext ==
  \/ SingleVoiceFrame
  \/ SingleVoiceFallback
  \/ MultiVoiceFrame
  \/ MultiVoiceOutput

DetectorSpec == Init /\ [][DetectorNext]_vars

\* ------------------------------------------------------------------------
\* The note-name conversions applied to names
\* ------------------------------------------------------------------------
\* the octave strings explored
OctaveStrings ==
  {ds \in UNION {[1..k -> Range(Digits)] : k \in 1..MaxOctaveDigits} :
     parseInt(ds) <= MaxOctave}

\* a name (stem and octave string) taken to a frequency, as
\* startSequenceGame does for each note, and back to a name
NoteCall(stem, octaveStr) ==
  LET frequency == noteNameToFrequency(stem \o octaveStr)
      midi      == frequencyToMidi(frequency)
  IN  [op |-> "noteNameToFrequency", stem |-> stem,
       octaveStr |-> octaveStr, note |-> stem \o octaveStr,
       frequency |-> frequency, midi |-> midi,
       noteName |-> midiToNoteName(midi)]

\* a name of octave 4
ConvertName ==
  \E letter \in NameLetters, accidental \in NameAccidentals :
    /\ last' = NoteCall(<<letter>> \o accidental, <<"4">>)
    /\ UNCHANGED <<game, sessionVars, clock, page, graph>>

\* the name converted last with another octave string, or none
ConvertOctave ==
  \E octaveStr \in OctaveStrings \cup {<<>>} :
    /\ last.op = "noteNameToFrequency"
    /\ last' = NoteCall(last.stem, octaveStr)
    /\ UNCHANGED <<game, sessionVars, clock, page, graph>>

NoteNext == ConvertName \/ ConvertOctave

NoteSpec == Init /\ [][NoteNext]_vars

\* ------------------------------------------------------------------------
\* The page of the sequence game: start button, start() and analyze()
\* ------------------------------------------------------------------------
\* dt of the first frame, 16.67 ms
FirstFrameMs == 17

\* gameState.gamePhase === 'GAME_OVER' || gameState.isGameOver
PageGameOver == gamePhase = "GAME_OVER" \/ isGameOver

\* a click on the enabled start button: start() up to its return or to its
\* await
ClickStart ==
  /\ game = "sequence"
  /\ ~page.calling
  /\ ~page.startBtnDisabled
  /\ IF page.isRunning /\ ~PageGameOver
       THEN /\ last' = Call("click", <<>>, 0)
            /\ UNCHANGED <<game, sessionVars, clock, page, graph>>
       ELSE IF page.isRunning /\ PageGameOver
         THEN /\ SequenceStart("start")
              /\ page' = [page EXCEPT !.startBtnDisabled = TRUE]
              /\ UNCHANGED <<clock, graph>>
         ELSE /\ page.awaiting < MaxPendingStarts
              /\ last' = Call("click", <<>>, 0)
              /\ page' = [page EXCEPT !.awaiting = @ + 1]
              /\ UNCHANGED <<game, sessionVars, clock, graph>>

\* audioCapture.initialize() resolves without success: start() returns
MicrophoneRefused ==
  /\ game = "sequence"
  /\ ~page.calling
  /\ page.awaiting > 0
  /\ last' = Call("refused", <<>>, 0)
  /\ page' = [page EXCEPT !.awaiting = @ - 1]
  /\ UNCHANGED <<game, sessionVars, clock, graph>>

\* it resolves with success: start() goes on after its await, up to its
\* call of analyze()
MicrophoneReady ==
  /\ ~page.calling
  /\ page.awaiting > 0
  /\ SequenceStart("start")
  /\ page' = [page EXCEPT !.awaiting = @ - 1, !.isRunning = TRUE,
                          !.startBtnDisabled = TRUE, !.calling = TRUE]
  /\ UNCHANGED <<clock, graph>>

\* now - lastFrameTime, or the first-frame value
FrameDeltas ==
  IF page.lastFrameTime = Null THEN {FirstFrameMs} ELSE PageDTs

\* analyze(), called by start() (page.calling) or by a
\* requestAnimationFrame callback, which it replaces by a new one
analyze(dt, yin, amdf) ==
  IF ~page.isRunning
    THEN /\ last' = Call("frame", <<>>, dt)
         /\ page' = [page EXCEPT
                       !.frames = IF page.calling THEN @ ELSE @ - 1,
                       !.calling = FALSE]
         /\ UNCHANGED <<game, sessionVars, clock, graph>>
    ELSE
      LET frequency   == detectPitch(2048, yin, amdf).result
          detecting   == gamePhase = "PLAYING" /\ ~isGameOver
          frequencies == IF detecting /\ Truthy(frequency)
                           THEN <<frequency>> ELSE <<>>
      IN  /\ updateSequenceGame(frequencies, dt)
          /\ page' = [page EXCEPT
                        !.lastFrameTime = 1,
                        !.startBtnDisabled =
                           IF gamePhase' = "GAME_OVER" \/ isGameOver'
                             THEN FALSE ELSE @,
                        !.frames = IF page.calling THEN @ + 1 ELSE @,
                        !.calling = FALSE]
          /\ UNCHANGED <<clock, graph>>

\* the call of analyze() that ends start()
StartCallsAnalyze ==
  \E dt \in FrameDeltas, yin \in PageYinOutputs, amdf \in PageAmdfOutputs :
    /\ page.calling
    /\ analyze(dt, yin, amdf)

\* a display frame: one pending callback runs
AnimationFrame ==
  \E dt \in FrameDeltas, yin \in PageYinOutputs, amdf \in PageAmdfOutputs :
    /\ ~page.calling
    /\ page.frames > 0
    /\ analyze(dt, yin, amdf)

PageInit == Init /\ game = "sequence"

PageNext ==
  \/ ClickStart
  \/ MicrophoneRefused
  \/ MicrophoneReady
  \/ StartCallsAnalyze
  \/ AnimationFrame

PageSpec == PageInit /\ [][PageNext]_vars

\* ------------------------------------------------------------------------
\* GraphRenderer: the history behind the graph
\* ------------------------------------------------------------------------
\* constructor(canvas, maxHistoryLength = 200); every page constructs it
\* with the canvas only
maxHistoryLength == 200

\* variant: the newest entry is dropped
shift_Newest(history) == SubSeq(history, 1, Len(history) - 1)

\* Array.prototype.shift: the first entry is removed
shift(history) == Tail(history)

\* push both entries, then shift both histories when the frequency
\* history has grown beyond maxHistoryLength
addDataPoint(freqArray, timestamp) ==
  LET pushedFrequencies == Append(graph.frequencyHistory, freqArray)
      pushedTimes == Append(graph.timeHistory, timestamp)
      over == Len(pushedFrequencies) > maxHistoryLength
  IN  graph' = [frequencyHistory |->
                  IF over THEN shift(pushedFrequencies)
                  ELSE pushedFrequencies,
                timeHistory |->
                  IF over THEN shift(pushedTimes) ELSE pushedTimes,
                now |-> timestamp]

\* both histories become empty arrays; draw() changes no field
clear == graph' = [graph EXCEPT !.frequencyHistory = <<>>,
                                !.timeHistory = <<>>]

\* the call made on the graph and the array it pushed
GraphCall(op, freqArray) == [op |-> op, freqArray |-> freqArray]

\* explored: the first point of a history is any of the inputs at any
\* step (a single number only there), the points after it are silent
\* frames one display frame apart
GraphPointExplored(freqArray, step) ==
  /\ graph.now < MaxHistoryMs
  /\ Len(graph.frequencyHistory) > 0 => freqArray = <<>> /\ step = 17

\* a page hands the array of detected frequencies to the graph
AddArray ==
  \E frequencies \in GraphFrequencies, step \in GraphSteps :
    /\ GraphPointExplored(frequencies, step)
    /\ addDataPoint(frequencies, graph.now + step)
    /\ last' = GraphCall("addDataPoint", frequencies)
    /\ UNCHANGED <<game, sessionVars, clock, page>>

\* a single number is wrapped: Array.isArray(frequencies) ? frequencies :
\* [frequencies]
AddNumber ==
  \E frequency \in GraphNumbers, step \in GraphSteps :
    /\ graph.now < MaxHistoryMs
    /\ Len(graph.frequencyHistory) = 0
    /\ addDataPoint(<<frequency>>, graph.now + step)
    /\ last' = GraphCall("addDataPoint", <<frequency>>)
    /\ UNCHANGED <<game, sessionVars, clock, page>>

ClearGraph ==
  /\ clear
  /\ last' = GraphCall("clear", <<>>)
  /\ UNCHANGED <<game, sessionVars, clock, page>>

GraphInit == Init /\ game = "sequence"

GraphNext == AddArray \/ AddNumber \/ ClearGraph

GraphSpec == GraphInit /\ [][GraphNext]_vars

\* ------------------------------------------------------------------------
\* A session of the sequence game ticked for ever
\* ------------------------------------------------------------------------
\* explored: frames of 1 ms until PLAYING is reached, longer ones in
\* every phase
ProgressTickExplored(dt) == gamePhase = "PLAYING" => dt > 1

\* a started session is ticked with any of the inputs until PLAYING and
\* without a valid frequency from then on
ProgressTick ==
  \E f \in ProgressFreqInputs, dt \in ProgressDTs :
    /\ Len(sequenceNotes) > 0
    /\ ProgressTickExplored(dt)
    /\ gamePhase = "PLAYING" => Len(filterValidFrequencies(f)) = 0
    /\ updateSequenceGame(f, dt)
    /\ UNCHANGED <<clock, page, graph>>

\* the session is started after load and started again at game over
ProgressStart ==
  /\ Len(sequenceNotes) = 0 \/ SequenceGameEnded
  /\ startSequenceGame

ProgressInit == Init /\ game = "sequence"

ProgressNext == ProgressTick \/ ProgressStart

\* the animation loop of the page calls the update once per display frame
\* for as long as the page runs
ProgressSpec ==
  ProgressInit /\ [][ProgressNext]_vars /\ WF_vars(ProgressTick)

\* ------------------------------------------------------------------------
\* Properties
\* ------------------------------------------------------------------------
\* the step is a call of the update function
Tick == last'.op = "update"

TickValidCount == Len(filterValidFrequencies(last'.freqsHz))

\* the sequence game scores this tick: PLAYING, not over, with a target
SequenceActive ==
  /\ game = "sequence"
  /\ gamePhase = "PLAYING"
  /\ ~isGameOver
  /\ Len(sequenceNotes) = Len(NOTE_SEQUENCE)

\* the creature game scores this tick
CreatureActive == game = "creature" /\ ~isGameOver /\ targetMidi # Null

\* max error of the tick: Null without voice inside the grace period,
\* 999 without voice after it
SequenceTickError ==
  IF TickValidCount = 0
    THEN IF graceSilenceTimer + last'.dt >= 300 THEN 99900 ELSE Null
    ELSE calculateMaxError(last'.freqsHz, getCurrentTarget.frequency)

CreatureTickError ==
  IF TickValidCount = 0
    THEN IF graceSilenceTimer + last'.dt >= 300 THEN 99900 ELSE Null
    ELSE creature_calculateMaxError(last'.freqsHz, targetMidi * MidiScale)

SequenceEvaluated == Tick /\ SequenceActive /\ SequenceTickError # Null

CreatureEvaluated == Tick /\ CreatureActive /\ CreatureTickError # Null

PhaseRank(phase) ==
  CASE phase = "PLAYING_NOTES" -> 0
    [] phase = "COUNTDOWN" -> 1
    [] phase = "PLAYING" -> 2
    [] phase = "GAME_OVER" -> 3

\* C1: a tick of the sequence game with dt > 0 leaves gamePhase where it
\* is or moves it exactly one step forward along PLAYING_NOTES ->
\* COUNTDOWN -> PLAYING -> GAME_OVER, however large dt is.
C1_PhaseOrder ==
  [][ (game = "sequence" /\ Tick /\ last'.dt > 0)
        => PhaseRank(gamePhase') - PhaseRank(gamePhase) \in {0, 1} ]_vars

\* a tick longer than the demo and the countdown together ended the demo
\* and only started the countdown
C1_Witness ==
  /\ game = "sequence"
  /\ last.op = "update"
  /\ last.dt > totalDuration + 3 * countdownInterval
  /\ gamePhase = "COUNTDOWN"
  /\ countdownNumber = 3

GameIsOver ==
  IF game = "sequence" THEN isGameOver \/ gamePhase = "GAME_OVER"
  ELSE isGameOver

\* C2: once the game is over every update leaves the whole session
\* unchanged, and only start / reset leaves the game-over condition.
C2_GameOverFrozen ==
  [][ GameIsOver =>
        /\ Tick => UNCHANGED sessionVars
        /\ ~GameIsOver' => last'.op \in {"start", "reset"} ]_vars

\* a 150 ms tick cannot end a game within the explored survival time, so
\* this tick was made on a game that was over already
C2_Witness ==
  /\ game = "sequence"
  /\ gamePhase = "GAME_OVER"
  /\ isGameOver
  /\ life = 0
  /\ last.op = "update"
  /\ last.dt = 150
  /\ last.freqsHz = <<2053>>

\* the transition function as the claim states it
ClaimedState(prevState, e, calmEnter, calmExit, chaosExit, chaosEnter,
             middle) ==
  IF e <= calmEnter THEN "CALMA"
  ELSE IF e > chaosEnter THEN "CAOS"
  ELSE IF prevState = "CALMA" /\ e <= calmExit THEN "CALMA"
  ELSE IF prevState = "CAOS" /\ e >= chaosExit THEN "CAOS"
  ELSE middle

ThresholdsAsClaimed ==
  /\ <<CALMA_THRESHOLD_ENTER, CALMA_THRESHOLD_EXIT,
       CAOS_THRESHOLD_EXIT, CAOS_THRESHOLD_ENTER>> = <<80, 88, 180, 200>>
  /\ <<creature_CALMA_THRESHOLD_ENTER, creature_CALMA_THRESHOLD_EXIT,
       creature_CAOS_THRESHOLD_EXIT, creature_CAOS_THRESHOLD_ENTER>>
       = <<50, 55, 135, 150>>

C4_Original ==
  [][ /\ (SequenceEvaluated /\ currentState = "CAOS"
            /\ SequenceTickError = 80) => currentState' = "TENSION"
      /\ (CreatureEvaluated /\ currentState = "CAOS"
            /\ CreatureTickError = 50) => currentState' = "INESTABLE"
    ]_vars

\* C4 amended: from CAOS a tick whose max error is exactly CALM_ENTER goes
\* directly to CALMA; CALMA is not reported from CAOS only when the error
\* is above CALM_ENTER, and between CALM_ENTER and CHAOS_EXIT the state
\* resolves to TENSION / INESTABLE.
C4_Amended ==
  [][ /\ (SequenceEvaluated /\ currentState = "CAOS") =>
           /\ SequenceTickError = 80 => currentState' = "CALMA"
           /\ SequenceTickError > 80 => currentState' # "CALMA"
           /\ (SequenceTickError > 80 /\ SequenceTickError < 180)
                => currentState' = "TENSION"
      /\ (CreatureEvaluated /\ currentState = "CAOS") =>
           /\ CreatureTickError = 50 => currentState' = "CALMA"
           /\ CreatureTickError > 50 => currentState' # "CALMA"
           /\ (CreatureTickError > 50 /\ CreatureTickError < 135)
                => currentState' = "INESTABLE"
    ]_vars

\* the tick found CAOS, measured exactly 0.8 against G3 and reports CALMA
C4_Witness ==
  /\ game = "sequence"
  /\ gamePhase = "PLAYING"
  /\ last.op = "update"
  /\ last.prevState = "CAOS"
  /\ last.freqsHz = <<2053>>
  /\ currentNoteIndex = 0
  /\ currentNoteTimer > 0
  /\ currentState = "CALMA"

\* the tick carries no valid frequency and the silence timer stays below
\* the grace period
GraceTick ==
  /\ Tick
  /\ SequenceActive \/ CreatureActive
  /\ TickValidCount = 0
  /\ graceSilenceTimer + last'.dt < 300

\* C5: a silent tick inside the 300 ms grace period leaves emotional
\* state, energy and life (doom in the creature game) as they were.
C5_GraceFreeze ==
  [][ GraceTick =>
        UNCHANGED <<currentState, energy, life, chaosEqSeconds>> ]_vars

\* a silent tick inside the grace period was made on a session that had
\* left its initial state and energy
C5_Witness ==
  /\ game = "sequence"
  /\ gamePhase = "PLAYING"
  /\ last.op = "update"
  /\ last.freqsHz = <<>>
  /\ graceSilenceTimer = 150
  /\ currentState = "TENSION"
  /\ last.prevState = "TENSION"
  /\ energy < 900
  /\ life < INITIAL_LIFE

\* the tick carries no valid frequency and the silence timer reaches or
\* exceeds the grace period
ExpiredTick ==
  /\ Tick
  /\ SequenceActive \/ CreatureActive
  /\ TickValidCount = 0
  /\ graceSilenceTimer + last'.dt >= 300

ClampTo(value, low, high) ==
  IF value < low THEN low ELSE IF value > high THEN high ELSE value

C7_Original ==
  [][ /\ (Tick /\ SequenceActive) =>
           survivalTime' = survivalTime + 10 * last'.dt
      /\ (Tick /\ CreatureActive) =>
           scoreSeconds' = scoreSeconds + 10 * last'.dt
    ]_vars

\* C8: life stays within [0, 1] in the sequence game and chaosEqSeconds
\* within [0, CHAOS_MAX = 10 s] in the creature game.
C8_ScoreRange ==
  /\ game = "sequence" => (0 <= life /\ life <= 1000000)
  /\ game = "creature" => (0 <= chaosEqSeconds /\ chaosEqSeconds <= 100000)

\* one 12 s tick in CAOS would take life to -0.8: it is 0
C8_Witness ==
  /\ game = "sequence"
  /\ last.op = "update"
  /\ last.dt = 12000
  /\ last.prevState = "CALMA"
  /\ currentState = "CAOS"
  /\ survivalTime = dtSeconds(12000)
  /\ life = 0

\* C9: energy stays within [0, 1].
C9_EnergyRange == 0 <= energy /\ energy <= 1000

\* the synthetic error 999 was evaluated twice from the initial energy 0.9
C9_Witness ==
  /\ last.op = "update"
  /\ last.freqsHz = <<>>
  /\ graceSilenceTimer >= 300
  /\ currentState = "CAOS"
  /\ energy < 700

\* life lost per millisecond, in millionths, in each emotional state
ClaimedDrain(state) ==
  CASE state = "CALMA" -> 0
    [] state = "TENSION" -> 50
    [] state = "CAOS" -> 150

\* C10: on every evaluated tick of the sequence game life changes by 0 in
\* CALMA, -0.05 * dt / 1000 in TENSION and -0.15 * dt / 1000 in CAOS,
\* clamped to [0, 1], by the state computed on this tick; and no update
\* ever increases life.
C10_LifeAccrual ==
  [][ /\ SequenceEvaluated =>
           life' = ClampTo(life - ClaimedDrain(currentState') * last'.dt,
                           0, 1000000)
      /\ (game = "sequence" /\ Tick) => life' <= life
    ]_vars

\* the tick found CALMA, ended in CAOS and took the CAOS drain of 150 ms
C10_Witness ==
  /\ game = "sequence"
  /\ gamePhase = "PLAYING"
  /\ last.op = "update"
  /\ last.dt = 150
  /\ last.prevState = "CALMA"
  /\ currentState = "CAOS"
  /\ survivalTime = dtSeconds(150)
  /\ life = INITIAL_LIFE - 150 * 150

\* the sequence session has been started and has reached PLAYING
SequenceStarted ==
  /\ game = "sequence"
  /\ Len(sequenceNotes) = Len(NOTE_SEQUENCE)
  /\ gamePhase \in {"PLAYING", "GAME_OVER"}

\* C11: in a PLAYING session started with life 1.0 whose evaluated ticks
\* all ended in CAOS, life is 1 - 0.15 * (CAOS time in seconds) clamped at
\* 0, and the game is over (isGameOver, gamePhase GAME_OVER, life 0) exactly
\* from the tick on which the CAOS time reaches 1 / 0.15 s, for every
\* subdivision of that time into ticks.
C11_LifeEndToEnd ==
  (SequenceStarted /\ survivalTime = 10 * clock.caosMs) =>
    /\ life = ClampTo(1000000 - 150 * clock.caosMs, 0, 1000000)
    /\ isGameOver <=> (150 * clock.caosMs >= 1000000)
    /\ isGameOver <=> (gamePhase = "GAME_OVER")
    /\ isGameOver => life = 0

\* the game ended on a 200 ms tick that brought the CAOS time from 6.5 s
\* to 6.7 s, in a session that also had ticks frozen by the grace period
C11_Witness ==
  /\ SequenceStarted
  /\ isGameOver
  /\ gamePhase = "GAME_OVER"
  /\ life = 0
  /\ last.op = "update"
  /\ last.dt = 200
  /\ clock.caosMs = 6700
  /\ survivalTime = dtSeconds(6700)
  /\ clock.playingMs > 6700

\* the note durations of the sequence, in ms
ClaimedDurationMs(index) == <<600, 900, 600, 900, 1200>>[index + 1]

\* C12: a PLAYING tick leaves currentNoteIndex where it is or moves it from
\* i to (i + 1) mod 5, and moves it only when the frame time summed since
\* note i became current, this tick included, is at least the duration of
\* note i; no note is skipped however long the tick is.
C12_NoteAdvance ==
  [][ (game = "sequence" /\ Tick /\ gamePhase = "PLAYING") =>
        \/ currentNoteIndex' = currentNoteIndex
        \/ /\ currentNoteIndex' = (currentNoteIndex + 1) % 5
           /\ clock.noteMs + last'.dt >= ClaimedDurationMs(currentNoteIndex)
    ]_vars

\* a 2400 ms tick, longer than the last note and the first together, moved
\* the target from the last note to the first and no further
C12_Witness ==
  /\ game = "sequence"
  /\ gamePhase = "PLAYING"
  /\ Len(sequenceNotes) = 5
  /\ last.op = "update"
  /\ last.dt = 2400
  /\ currentNoteIndex = 0
  /\ currentNoteTimer = 0
  /\ clock.noteMs = 0
  /\ clock.playingMs >= 4200 + 2400

\* C13 as stated: in a started session still PLAYING, when the frame time
\* summed over the PLAYING ticks is 4200 + 600 ms, currentNoteIndex is 1,
\* however that time was divided into ticks.
C13_Original ==
  (SequenceStarted /\ gamePhase = "PLAYING" /\ clock.playingMs = 4800)
    => currentNoteIndex = 1

\* C14 as stated: on every PLAYING tick with a valid frequency the new
\* emotional state follows from the error against the note at the
\* currentNoteIndex the tick leaves, the one getSequenceGameState reports.
C14_Original ==
  [][ (Tick /\ SequenceActive /\ TickValidCount > 0) =>
        currentState' =
          ClaimedState(currentState,
                       calculateMaxError(last'.freqsHz,
                         sequenceNotes[currentNoteIndex' + 1].frequency),
                       80, 88, 180, 200, "TENSION")
    ]_vars

\* C15: a COUNTDOWN tick finds the number 3, 2 or 1, leaves it or lowers
\* it by exactly 1, and lowers it only when at least 1000 ms of frame time
\* have been summed since it last changed (or since the phase began);
\* PLAYING is entered on the tick that brings the number to 0 and on no
\* other, after at least 3 ticks and 3000 ms of COUNTDOWN.
C15_Countdown ==
  [][ (game = "sequence" /\ Tick /\ gamePhase = "COUNTDOWN") =>
        /\ countdownNumber \in {1, 2, 3}
        /\ countdownNumber' \in {countdownNumber, countdownNumber - 1}
        /\ countdownNumber' # countdownNumber =>
             clock.sinceDecrementMs + last'.dt >= 1000
        /\ gamePhase' \in {"COUNTDOWN", "PLAYING"}
        /\ (gamePhase' = "PLAYING") <=> (countdownNumber' = 0)
        /\ gamePhase' = "PLAYING" =>
             (clock'.countdownTicks >= 3 /\ clock'.countdownMs >= 3000)
    ]_vars

\* fifteen ticks of 200 ms: PLAYING is entered after exactly 3000 ms
C15_Witness ==
  /\ game = "sequence"
  /\ gamePhase = "PLAYING"
  /\ countdownNumber = 0
  /\ last.op = "update"
  /\ last.dt = 200
  /\ clock.countdownMs = 3000
  /\ clock.countdownTicks = 15
  /\ clock.playingMs = 0

\* time at which the demonstration of each note begins, in ms
ClaimedOnsetMs(index) == <<0, 600, 1500, 2100, 3000>>[index + 1]

\* C16: a PLAYING_NOTES tick that brings initialPlaybackTimer to 4200 ms or
\* more changes the phase to COUNTDOWN and sets currentNoteIndex and
\* currentNoteTimer to 0 and countdownNumber to 3; any other stays in the
\* phase and leaves initialPlaybackNoteIndex at the one note i whose
\* demonstration time [onset(i), onset(i) + duration(i)) holds the timer.
C16_Playback ==
  [][ (game = "sequence" /\ Tick /\ gamePhase = "PLAYING_NOTES") =>
        IF initialPlaybackTimer + last'.dt >= 4200
          THEN /\ gamePhase' = "COUNTDOWN"
               /\ currentNoteIndex' = 0
               /\ currentNoteTimer' = 0
               /\ countdownNumber' = 3
          ELSE /\ gamePhase' = "PLAYING_NOTES"
               /\ initialPlaybackTimer' = initialPlaybackTimer + last'.dt
               /\ \A i \in 0..4 :
                    (initialPlaybackNoteIndex' = i) <=>
                      /\ ClaimedOnsetMs(i) <= initialPlaybackTimer'
                      /\ initialPlaybackTimer' <
                           ClaimedOnsetMs(i) + ClaimedDurationMs(i)
    ]_vars

\* a 2400 ms tick took the timer from the onset of the second note to the
\* onset of the fifth: the fifth note is the one demonstrated
C16_Witness ==
  /\ game = "sequence"
  /\ gamePhase = "PLAYING_NOTES"
  /\ last.op = "update"
  /\ last.dt = 2400
  /\ initialPlaybackTimer = 3000
  /\ initialPlaybackNoteIndex = 4

\* C17: a tick of the sequence game made in PLAYING_NOTES or COUNTDOWN
\* leaves emotional state, energy, life, survivalTime, graceSilenceTimer and
\* isGameOver unchanged, whatever frequencies it carries.
C17_PreGameGate ==
  [][ (game = "sequence" /\ Tick
         /\ gamePhase \in {"PLAYING_NOTES", "COUNTDOWN"}) =>
        UNCHANGED <<currentState, energy, life, survivalTime,
                    graceSilenceTimer, isGameOver>> ]_vars

\* a started session in COUNTDOWN was ticked with a voice more than 2
\* semitones from the first note for 12 s, and nothing was scored
C17_Witness ==
  /\ game = "sequence"
  /\ Len(sequenceNotes) = 5
  /\ gamePhase = "COUNTDOWN"
  /\ countdownNumber = 2
  /\ last.op = "update"
  /\ last.freqsHz = <<2201>>
  /\ last.dt = 12000
  /\ currentState = "CALMA"
  /\ energy = 900
  /\ life = INITIAL_LIFE
  /\ survivalTime = 0
  /\ graceSilenceTimer = 0
  /\ ~isGameOver

\* C18: a tick of the sequence game while sequenceNotes is empty, or of
\* the creature game while targetMidi is null, leaves emotional state,
\* energy, life or doom, survival time, the silence timer, the note index
\* and the game-over flag unchanged and does not end the game, whatever
\* frequencies and dt it carries.
C18_NoTarget ==
  [][ /\ (game = "sequence" /\ Tick /\ Len(sequenceNotes) = 0) =>
           /\ UNCHANGED <<currentState, energy, life, survivalTime,
                          graceSilenceTimer, currentNoteIndex, isGameOver>>
           /\ gamePhase' # "GAME_OVER"
      /\ (game = "creature" /\ Tick /\ targetMidi = Null) =>
           UNCHANGED <<currentState, energy, chaosEqSeconds, scoreSeconds,
                       graceSilenceTimer, targetMidi, isGameOver>>
    ]_vars

\* the sequence game, never started, was ticked in PLAYING with a voice
\* for 12 s: its note timer ran and nothing else moved
C18_Witness ==
  /\ game = "sequence"
  /\ sequenceNotes = <<>>
  /\ gamePhase = "PLAYING"
  /\ last.op = "update"
  /\ last.freqsHz = <<2201>>
  /\ last.dt = 12000
  /\ currentNoteTimer = 12000
  /\ currentNoteIndex = 0
  /\ currentState = "CALMA"
  /\ energy = 900
  /\ life = INITIAL_LIFE
  /\ survivalTime = 0
  /\ graceSilenceTimer = 0
  /\ ~isGameOver

\* the target of the last max-error call as a MIDI note, in hundredths
CallTargetMidi ==
  IF game = "sequence" THEN Midi(last.target) ELSE last.target * 100

\* the per-voice errors of the entries of the last call that lie within
\* 80..1200 Hz
CallErrors ==
  {Abs(Midi(last.freqsHz[i]) - CallTargetMidi) :
     i \in {j \in 1..Len(last.freqsHz) :
              last.freqsHz[j] >= 800 /\ last.freqsHz[j] <= 12000}}

\* the result of the last call is the largest per-voice error of its
\* valid entries
ResultIsLargestError ==
  /\ IF CallErrors = {} THEN last.result = Null
     ELSE /\ last.result \in CallErrors
          /\ \A e \in CallErrors : e <= last.result
  /\ (/\ last.freqsHz \in {<<2632, 2921>>, <<2921, 2632>>}
      /\ last.target \in {2616, 60}) => last.result = 190

\* this call has the arguments of the one before and one more voice
VoiceAdded ==
  /\ last.op = "calculateMaxError"
  /\ last.result # Null
  /\ last'.target = last.target
  /\ Len(last'.freqsHz) = Len(last.freqsHz) + 1
  /\ SubSeq(last'.freqsHz, 1, Len(last.freqsHz)) = last.freqsHz

\* C19: calculateMaxError returns the largest per-voice error of the valid
\* entries (none: null): it is one of the errors and no error exceeds it;
\* voices at errors 0.1 and 1.9 against C4 give 1.9 in either order; and a
\* call with one more voice never returns less than the call without it.
C19_MaxError ==
  [][ /\ ResultIsLargestError'
      /\ VoiceAdded => last'.result >= last.result ]_vars

\* voices at errors 1.0, 1.9 and 0.1 against C4, with the largest in the
\* middle: 1.9, neither the mean 1.0 nor the minimum 0.1
C19_Witness ==
  /\ last.op = "calculateMaxError"
  /\ last.freqsHz = <<2773, 2345, 2602>>
  /\ last.target \in {2616, 60}
  /\ last.result = 190

\* the entries the claim calls valid: finite numbers within 80..1200 Hz
ClaimedValidEntries(freqsHz) ==
  IF freqsHz = NotAnArray THEN <<>>
  ELSE SelectSeq(freqsHz, LAMBDA x :
         /\ x \notin {NaN, Infinity, 0 - Infinity, Null, Undefined}
         /\ 800 <= x
         /\ x <= 12000)

TickEntries == ClaimedValidEntries(last'.freqsHz)

\* the largest distance, in hundredths of a semitone, of the valid entries
\* of the tick from the MIDI note target
TickEntriesError(target) ==
  LET errors == {Abs(Midi(TickEntries[i]) - target) :
                   i \in 1..Len(TickEntries)}
  IN  CHOOSE e \in errors : \A x \in errors : x <= e

\* C20: a tick of an active session whose array holds no finite entry
\* within 80..1200 Hz, or is no array, has exactly the effect of a tick with
\* the empty array: the silence timer grows and the session is frozen or
\* goes to CAOS, never scored as a zero error; any other tick is scored on
\* its valid entries alone, 80 Hz and 1200 Hz among them: the silence timer
\* is 0, survival time grows, and state and energy follow the largest error
\* of the valid entries.
C20_InvalidDiscarded ==
  [][ (Tick /\ (SequenceActive \/ CreatureActive)) =>
        IF TickEntries = <<>>
          THEN /\ game = "sequence" => PlayingPhase(<<>>, last'.dt)
               /\ game = "creature" => CreatureTick(<<>>, last'.dt)
               /\ graceSilenceTimer' = graceSilenceTimer + last'.dt
               /\ \/ UNCHANGED <<currentState, energy>>
                  \/ currentState' = "CAOS"
          ELSE /\ graceSilenceTimer' = 0
               /\ game = "sequence" =>
                    LET e == TickEntriesError(
                               Midi(getCurrentTarget.frequency))
                    IN  /\ survivalTime' = survivalTime + 10 * last'.dt
                        /\ currentState' =
                             ClaimedState(currentState, e,
                                          80, 88, 180, 200, "TENSION")
                        /\ energy' =
                             lerp(energy, 1000 - ClampTo(5 * e, 0, 1000), 15)
               /\ game = "creature" =>
                    LET e == TickEntriesError(targetMidi * 100)
                    IN  /\ scoreSeconds' = scoreSeconds + 10 * last'.dt
                        /\ currentState' =
                             ClaimedState(currentState, e,
                                          50, 55, 135, 150, "INESTABLE")
                        /\ energy' =
                             lerp(energy, 1000 - ClampTo(5 * e, 0, 1000), 15)
    ]_vars

\* from CAOS, a tick carrying NaN, a voice 0.8 semitones from G3 and
\* 79.9 Hz was scored on the voice alone: CALMA
C20_Witness ==
  /\ game = "sequence"
  /\ gamePhase = "PLAYING"
  /\ last.op = "update"
  /\ last.freqsHz = <<NaN, 2053, 799>>
  /\ last.prevState = "CAOS"
  /\ currentNoteIndex = 0
  /\ currentNoteTimer > 0
  /\ graceSilenceTimer = 0
  /\ currentState = "CALMA"

\* the max error of an evaluated tick of the running engine
EvaluatedTickError ==
  IF game = "sequence" THEN SequenceTickError ELSE CreatureTickError

\* proximity as stated: 1 - clamp(maxError / 2.0, 0, 1), in thousandths
ClaimedProximity(e) == 1000 - ClampTo(5 * e, 0, 1000)

\* C21: on every evaluated tick of either engine energy becomes
\* energy + 0.15 * (proximity - energy), proximity being
\* 1 - clamp(maxError / 2, 0, 1): energy stays between its old value and
\* proximity (no overshoot), its distance to proximity is 0.85 of the old
\* distance (up to the rounding of the thousandths), and a tick whose error
\* is 2 semitones or more, the 999 of expired silence included, has
\* proximity 0 and does not raise energy.
C21_EnergyFilter ==
  [][ (SequenceEvaluated \/ CreatureEvaluated) =>
        LET e == EvaluatedTickError
            p == ClaimedProximity(e)
        IN  /\ energy' = energy + (15 * (p - energy)) \div 100
            /\ energy <= p => (energy <= energy' /\ energy' <= p)
            /\ energy >= p => (p <= energy' /\ energy' <= energy)
            /\ Abs(100 * Abs(energy' - p) - 85 * Abs(energy - p)) < 100
            /\ e >= 200 => (p = 0 /\ energy' <= energy)
    ]_vars

\* the second silent frame of 150 ms after a start of the creature game
\* ended the grace period: the error 999 took energy from 0.9 to 0.765
C21_Witness ==
  /\ game = "creature"
  /\ targetMidi # Null
  /\ last.op = "update"
  /\ last.freqsHz = <<>>
  /\ graceSilenceTimer = 300
  /\ currentState = "CAOS"
  /\ energy = 765

\* the band of an error among the thresholds t = <<calm enter, calm exit,
\* chaos exit, chaos enter>>
ErrorBand(e, t) ==
  IF e <= t[1] THEN 1
  ELSE IF e <= t[2] THEN 2
  ELSE IF e < t[3] THEN 3
  ELSE IF e <= t[4] THEN 4
  ELSE 5

\* the state after a tick, from the previous state and the band alone
StateOfBand(prevState, band, middle) ==
  CASE band = 1 -> "CALMA"
    [] band = 2 -> IF prevState = "CALMA" THEN "CALMA" ELSE middle
    [] band = 3 -> middle
    [] band = 4 -> IF prevState = "CAOS" THEN "CAOS" ELSE middle
    [] band = 5 -> "CAOS"

StateAfterTick(prevState, e) ==
  IF e = Null THEN prevState
  ELSE IF game = "sequence"
    THEN StateOfBand(prevState, ErrorBand(e, <<80, 88, 180, 200>>),
                     "TENSION")
    ELSE StateOfBand(prevState, ErrorBand(e, <<50, 55, 135, 150>>),
                     "INESTABLE")

InitialSequenceSession ==
  /\ gamePhase = "PLAYING_NOTES"
  /\ countdownNumber = 3
  /\ currentNoteIndex = 0
  /\ initialPlaybackNoteIndex = 0
  /\ <<currentNoteTimer, initialPlaybackTimer, countdownTimer,
       graceSilenceTimer>> = <<0, 0, 0, 0>>
  /\ life = 1000000
  /\ survivalTime = 0
  /\ isGameOver = FALSE
  /\ energy = 900
  /\ currentState = "CALMA"
  /\ Len(sequenceNotes) = Len(NOTE_SEQUENCE)
  /\ \A i \in 1..Len(NOTE_SEQUENCE) :
       sequenceNotes[i].note = NOTE_SEQUENCE[i].note

\* the initial session of the creature game: everything but the target
\* note, which every call draws anew from C3..B5
InitialCreatureSession ==
  /\ targetMidi \in 48..83
  /\ <<scoreSeconds, chaosEqSeconds, calmHoldSeconds, graceSilenceTimer,
       lastValidFreqsCount>> = <<0, 0, 0, 0, 0>>
  /\ isGameOver = FALSE
  /\ energy = 900
  /\ currentState = "CALMA"

\* C23: a start or a reset, in whatever state it is called, leaves the
\* initial session: for the sequence game PLAYING_NOTES, countdown number
\* 3, note index 0, all timers 0, life 1, survival time 0, not over, energy
\* 0.9, CALMA and the prepared sequence; for the creature game doom 0,
\* score 0, calm hold 0, not over, energy 0.9, CALMA and a target drawn
\* from C3..B5.  Nothing else of the previous game is left, and a reset
\* that follows a reset changes nothing (but the random target of the
\* creature game).
C23_StartReset ==
  [][ last'.op \in {"start", "reset"} =>
        /\ game = "sequence" =>
              /\ InitialSequenceSession'
              /\ UNCHANGED creatureVars
              /\ last.op = "reset" => UNCHANGED sessionVars
        /\ game = "creature" =>
              /\ InitialCreatureSession'
              /\ UNCHANGED sequenceVars
              /\ last.op = "reset" =>
                    UNCHANGED <<commonVars, scoreSeconds, chaosEqSeconds,
                                calmHoldSeconds, lastValidFreqsCount>>
    ]_vars

\* a creature that was in CAOS has been reset
C23_Witness ==
  /\ game = "creature"
  /\ last.op = "reset"
  /\ last.prevState = "CAOS"
  /\ InitialCreatureSession

\* doom gained on a tick that ends in the given state, in 1/10000 s:
\* dt/1000 in CAOS, half of it in INESTABLE, nothing in CALMA
ClaimedAccrual(state, dt) ==
  CASE state = "CAOS" -> 10 * dt
    [] state = "INESTABLE" -> 5 * dt
    [] state = "CALMA" -> 0

\* C24 as stated: on every evaluated tick of the creature game
\* chaosEqSeconds grows by dt/1000 (CAOS), 0.5 * dt/1000 (INESTABLE) or 0
\* (CALMA), clamped to [0, 10], and isGameOver is true after the tick
\* exactly when chaosEqSeconds has reached 10.
C24_Original ==
  [][ CreatureEvaluated =>
        /\ chaosEqSeconds' =
             ClampTo(chaosEqSeconds
                       + ClaimedAccrual(currentState', last'.dt), 0, 100000)
        /\ isGameOver' <=> (chaosEqSeconds' >= 100000)
    ]_vars

\* C24 (amended): the same, except on a tick that changes the target note:
\* such a tick ends in CALMA and chaosEqSeconds first loses the reward of
\* 1.0 s (not below 0) before the accrual of 0.
C24_Amended ==
  [][ CreatureEvaluated =>
        LET base == IF targetMidi' # targetMidi
                      THEN ClampTo(chaosEqSeconds - 10000, 0, 100000)
                      ELSE chaosEqSeconds
        IN  /\ chaosEqSeconds' =
                 ClampTo(base + ClaimedAccrual(currentState', last'.dt),
                         0, 100000)
            /\ isGameOver' <=> (chaosEqSeconds' >= 100000)
            /\ targetMidi' # targetMidi => currentState' = "CALMA"
    ]_vars

\* the round ended on an INESTABLE tick of 5 s whose half-weighted accrual
\* took doom past the limit, where it was clamped
C24_Witness ==
  /\ game = "creature"
  /\ last.op = "update"
  /\ last.dt = 5000
  /\ currentState = "INESTABLE"
  /\ chaosEqSeconds = 100000
  /\ isGameOver

\* the evaluated tick ends in CALMA with the consecutive-CALMA counter,
\* this frame included, at 2000 ms or more
CalmHoldReached ==
  /\ CreatureEvaluated
  /\ currentState' = "CALMA"
  /\ calmHoldSeconds + last'.dt >= 2000

\* the target changes to another note, doom loses 1.0 s (not below 0) and
\* the counter restarts
Rewarded ==
  /\ targetMidi' # targetMidi
  /\ targetMidi' \in 48..83
  /\ chaosEqSeconds' = ClampTo(chaosEqSeconds - 10000, 0, 100000)
  /\ calmHoldSeconds' = 0

\* C25 as stated: on every tick at which the consecutive-CALMA counter has
\* reached 2000 ms and the state is CALMA, a target different from the
\* current one is selected, chaosEqSeconds decreases by 1.0 s (not below
\* 0) and the counter restarts from 0.
C25_Original == [][ CalmHoldReached => Rewarded ]_vars

\* C25 (amended): on such a tick a note is drawn at random; when it differs
\* from the current target it becomes the target, chaosEqSeconds decreases
\* by 1.0 s (not below 0) and the counter restarts from 0; when it is the
\* current target nothing is rewarded on this tick: target and
\* chaosEqSeconds stay and the counter keeps growing, so the draw is
\* repeated on the next CALMA tick.  No other tick changes the target.
C25_Amended ==
  [][ /\ CalmHoldReached =>
           \/ Rewarded
           \/ /\ UNCHANGED <<targetMidi, chaosEqSeconds>>
              /\ calmHoldSeconds' = calmHoldSeconds + last'.dt
      /\ (Tick /\ game = "creature" /\ ~CalmHoldReached) =>
           UNCHANGED targetMidi
    ]_vars

\* after 5 s of CAOS the player held the target D4 for two frames of 1 s:
\* the target is now C4, doom went from 5.0 to 4.0, the counter is at 0
C25_Witness ==
  /\ game = "creature"
  /\ last.op = "update"
  /\ last.dt = 1000
  /\ last.freqsHz = <<2937>>
  /\ last.prevState = "CALMA"
  /\ currentState = "CALMA"
  /\ targetMidi = 60
  /\ scoreSeconds = dtSeconds(7000)
  /\ chaosEqSeconds = 40000
  /\ calmHoldSeconds = 0

\* a finite frequency within the detection range 80..1000 Hz
ClaimedUsable(f) ==
  /\ f \notin {Null, Undefined, NaN, Throws, Infinity, 0 - Infinity}
  /\ 800 <= f
  /\ f <= 10000

\* C26: whatever YIN and AMDF return, the single-voice detectPitch returns
\* null or one finite frequency within 80..1000 Hz; AMDF is consulted
\* exactly when YIN returned something that is not such a frequency, and
\* then its output is returned if it is one and null otherwise; a returned
\* frequency passes the game's validity filter unchanged.
C26_DetectPitch ==
  (last.op = "detectPitch" /\ ~last.threw) =>
    /\ last.result = Null \/ ClaimedUsable(last.result)
    /\ last.timeData \in {Null, 0} =>
         (last.result = Null /\ last.amdfCalls = 0)
    /\ last.timeData \notin {Null, 0} =>
         /\ last.amdfCalls = IF ClaimedUsable(last.yin) THEN 0 ELSE 1
         /\ last.result =
              IF ClaimedUsable(last.yin) THEN last.yin
              ELSE IF ClaimedUsable(last.amdf) THEN last.amdf
              ELSE Null
    /\ last.result # Null =>
         filterValidFrequencies(<<last.result>>) = <<last.result>>

\* YIN returned 1000.1 Hz, just above the range, and AMDF exactly 1000 Hz,
\* which was returned
C26_Witness ==
  /\ last.op = "detectPitch"
  /\ last.yin = 10001
  /\ last.amdf = 10000
  /\ last.amdfCalls = 1
  /\ last.result = 10000

\* C27: a detector that throws on a frame is contained: detectPitch
\* returns null, detectMultiplePitches returns an array (possibly empty) of
\* at most count frequencies within 80..1000 Hz, no call ends in the
\* exception, and the frame after such a frame is analysed as any other:
\* detectPitch returns the usable output of YIN, else that of AMDF, and
\* detectMultiplePitches puts the usable output of YIN first.
C27_ThrowContained ==
  /\ last.op = "detectPitch" =>
       /\ last.result # Throws
       /\ last.threw => last.result = Null
       /\ (last.afterThrow /\ ~last.threw /\ last.timeData = 2048) =>
            last.result =
              IF ClaimedUsable(last.yin) THEN last.yin
              ELSE IF ClaimedUsable(last.amdf) THEN last.amdf
              ELSE Null
  /\ last.op = "detectMultiplePitches" =>
       /\ Len(last.result) <= Max(last.count, 0)
       /\ \A k \in 1..Len(last.result) : ClaimedUsable(last.result[k])
       /\ (last.afterThrow /\ last.timeData = 2048 /\ last.count >= 1
             /\ ClaimedUsable(last.yin)) =>
            (Len(last.result) >= 1 /\ last.result[1] = last.yin)

\* on the frame after one on which YIN threw, AMDF throws on its first
\* attempt and finds a second voice on the next one: both voices are
\* returned
C27_Witness ==
  /\ last.op = "detectMultiplePitches"
  /\ last.afterThrow
  /\ last.threw
  /\ last.count = 3
  /\ last.yin = 2200
  /\ last.amdf = <<Throws, 3300>>
  /\ last.result = <<2200, 3300>>

\* the two frequencies are at least 15 % apart, relative to the earlier
\* one, and neither quotient is within 0.1 of an integer
Independent(new, existing) ==
  /\ 100 * Abs(new - existing) >= 15 * existing
  /\ \A n \in 0..13 :
       /\ 10 * Abs(new - n * existing) >= existing
       /\ 10 * Abs(existing - n * new) >= new

\* at most count frequencies, each later one independent of every earlier
\* one, and no octave of a fundamental of 220 Hz
ClaimedVoices ==
  /\ Len(last.result) <= Max(last.count, 0)
  /\ \A k \in 2..Len(last.result) : \A j \in 1..(k - 1) :
       Independent(last.result[k], last.result[j])
  /\ (Len(last.result) >= 1 /\ last.result[1] = 2200) =>
       \A k \in 1..Len(last.result) : last.result[k] # 4400

\* C28 as stated: detectMultiplePitches(frame, count) returns at most count
\* frequencies after at most count - 1 attempts of the alternate detector,
\* every additional one at least 15 % apart from and not harmonically
\* related to every one accepted before it; with a fundamental at 220 Hz a
\* candidate at 440 Hz is rejected.
C28_Original ==
  last.op = "detectMultiplePitches" =>
    /\ ClaimedVoices
    /\ last.amdfCalls <= Max(last.count - 1, 0)

\* C28 (amended): the same, with at most count - 1 attempts of the
\* alternate detector when YIN gave the first voice, and at most count
\* when it did not: one attempt for the first voice and count - 1 for
\* the others.
C28_Amended ==
  last.op = "detectMultiplePitches" =>
    /\ ClaimedVoices
    /\ last.amdfCalls <=
         IF Len(last.result) >= 1 /\ last.result[1] = last.yin
           THEN Max(last.count - 1, 0)
           ELSE Max(last.count, 0)
    /\ (last.timeData = 2048 /\ last.count >= 1
          /\ ~ClaimedUsable(last.yin)) => last.amdfCalls >= 1

\* three voices were asked for and YIN found 220 Hz: of the two attempts
\* of AMDF the octave 440 Hz was rejected and 330 Hz accepted
C28_Witness ==
  /\ last.op = "detectMultiplePitches"
  /\ last.count = 3
  /\ last.yin = 2200
  /\ last.amdf = <<4400, 3300>>
  /\ last.amdfCalls = 2
  /\ last.result = <<2200, 3300>>

\* the stem is one of the 12 names of the chromatic table
ChromaticStems ==
  { <<"C">>, <<"C", "#">>, <<"D">>, <<"D", "#">>, <<"E">>, <<"F">>,
    <<"F", "#">>, <<"G">>, <<"G", "#">>, <<"A">>, <<"A", "#">>, <<"B">> }

\* a valid name: a stem of the table followed by one or more digits
ClaimedValidName == last.stem \in ChromaticStems /\ last.octaveStr # <<>>

\* the position of the stem in the table, from 0
StemIndex(stem) ==
  CASE stem = <<"C">> -> 0       [] stem = <<"C", "#">> -> 1
    [] stem = <<"D">> -> 2       [] stem = <<"D", "#">> -> 3
    [] stem = <<"E">> -> 4       [] stem = <<"F">> -> 5
    [] stem = <<"F", "#">> -> 6  [] stem = <<"G">> -> 7
    [] stem = <<"G", "#">> -> 8  [] stem = <<"A">> -> 9
    [] stem = <<"A", "#">> -> 10 [] stem = <<"B">> -> 11

\* s = (octave - 4) * 12 + (index - 9)
ClaimedSemitones ==
  (parseInt(last.octaveStr) - 4) * 12 + (StemIndex(last.stem) - 9)

\* A4 is exactly 440 Hz, a valid name is 440 * 2^(s/12) (its MIDI value is
\* within 0.1 of 69 + s), anything else is null
ClaimedFrequency ==
  /\ last.note = <<"A", "4">> => last.frequency = 4400
  /\ ClaimedValidName =>
       /\ last.frequency # Null
       /\ Abs(last.midi - 100 * (69 + ClaimedSemitones)) <= 10
  /\ ~ClaimedValidName =>
       /\ last.frequency = Null
       /\ last.noteName = Null

ActiveLoops == page.frames + (IF page.calling THEN 1 ELSE 0)

\* C29 as stated: whatever the interleaving of clicks on Start, of the
\* microphone initialisation and of display frames, at most one analyze /
\* requestAnimationFrame loop is active; a click while the game is running
\* and not over changes nothing; a click at game over restarts the engine
\* and starts no second loop.
C29_Original ==
  [][ /\ ActiveLoops' <= 1
      /\ (last'.op = "click" /\ page.isRunning /\ ~PageGameOver) =>
           UNCHANGED <<sessionVars, page>>
      /\ (last'.op = "start" /\ page.isRunning /\ PageGameOver
            /\ page'.awaiting = page.awaiting) =>
           (InitialSequenceSession' /\ ActiveLoops' = ActiveLoops)
    ]_vars

\* the newest n entries of a history, oldest first
Newest(history, n) ==
  SubSeq(history, Len(history) - n + 1, Len(history))

\* the smaller of two numbers
Min(a, b) == IF a < b THEN a ELSE b

\* C31: after any sequence of addDataPoint and clear calls the frequency
\* history holds at most 200 entries and the time history exactly as many;
\* a call of addDataPoint leaves the newest 200 of the entries held before
\* plus the new one, oldest first, in both histories; the time history is
\* in the order of the clock and ends at the last timestamp; clear empties
\* both.
C31_History ==
  [][ /\ Len(graph'.frequencyHistory) <= 200
      /\ Len(graph'.timeHistory) = Len(graph'.frequencyHistory)
      /\ \A i \in 1..(Len(graph'.timeHistory) - 1) :
           graph'.timeHistory[i] <= graph'.timeHistory[i + 1]
      /\ last'.op = "addDataPoint" =>
           LET frequencies == Append(graph.frequencyHistory, last'.freqArray)
               times == Append(graph.timeHistory, graph'.now)
               kept == Min(200, Len(frequencies))
           IN  /\ graph'.frequencyHistory = Newest(frequencies, kept)
               /\ graph'.timeHistory = Newest(times, kept)
      /\ last'.op = "clear" =>
           /\ graph'.frequencyHistory = <<>>
           /\ graph'.timeHistory = <<>> ]_vars

\* a point was added to a full history whose first points had already
\* been evicted
C31_Witness ==
  /\ last.op = "addDataPoint"
  /\ Len(graph.frequencyHistory) = 200
  /\ graph.timeHistory[1] > 17
  /\ graph.timeHistory[200] = graph.now

\* a tick of the creature game that carries no valid frequency
CreatureSilentTick == Tick /\ CreatureActive /\ TickValidCount = 0

C33_Indicators ==
  /\ game = "sequence" =>
       /\ isGameOver <=> gamePhase = "GAME_OVER"
       /\ isGameOver <=> life = 0
  /\ game = "creature" =>
       (isGameOver <=> chaosEqSeconds = 10 * SecScale)

\* a sequence game was lost by a tick that took the life to 0 after
\* PLAYING time had been scored
C33_Witness ==
  /\ game = "sequence"
  /\ last.op = "update"
  /\ isGameOver
  /\ gamePhase = "GAME_OVER"
  /\ life = 0
  /\ survivalTime > 0

\* C34: the penalty never runs ahead of the score.  In every reachable
\* state of the sequence game life >= 1 - 0.15 * survivalTime, and in
\* every reachable state of the creature game chaosEqSeconds <=
\* scoreSeconds; so a finished sequence game has survivalTime >= 1 / 0.15 s
\* and a finished creature game has scoreSeconds >= 10 s.
C34_PenaltyBehindScore ==
  /\ game = "sequence" =>
       /\ life >= 1000000 - 15 * survivalTime
       /\ isGameOver => 15 * survivalTime >= 1000000
  /\ game = "creature" =>
       /\ chaosEqSeconds <= scoreSeconds
       /\ isGameOver => scoreSeconds >= 100000

\* a sequence game that was in CAOS on every scored tick: the life is
\* exactly on the bound after two ticks
C34_Witness ==
  /\ game = "sequence"
  /\ gamePhase = "PLAYING"
  /\ last.op = "update"
  /\ survivalTime = dtSeconds(300)
  /\ life = 1000000 - 15 * survivalTime

\* a tick of the sequence game that repeats the voices of the tick before
\* it against the same note: the tick before was scored and did not advance
\* the note
RepeatedTick ==
  /\ Tick
  /\ SequenceActive
  /\ TickValidCount > 0
  /\ last.op = "update"
  /\ last.freqsHz = last'.freqsHz
  /\ survivalTime > 0
  /\ currentNoteTimer > 0

\* C35: the state transition applied once more with the same error to the
\* state it has produced gives that state again, in both games and for
\* every previous state and error; and a tick that repeats the error of the
\* tick before it leaves the emotional state as that tick left it.
C35_NoFlicker ==
  [][ /\ SequenceEvaluated =>
           NewState(currentState', SequenceTickError) = currentState'
      /\ CreatureEvaluated =>
           creature_NewState(currentState', CreatureTickError) =
             currentState'
      /\ RepeatedTick => currentState' = currentState ]_vars

\* a calm singer moved to exactly 2.0 semitones from G3, the threshold of
\* CAOS, and stayed there for a second tick: TENSION after both
C35_Witness ==
  /\ game = "sequence"
  /\ gamePhase = "PLAYING"
  /\ last.op = "update"
  /\ last.freqsHz = <<2200>>
  /\ last.prevState = "TENSION"
  /\ currentState = "TENSION"
  /\ currentNoteIndex = 0
  /\ survivalTime = dtSeconds(300)
  /\ life = INITIAL_LIFE - 2 * 50 * 150

\* C36: a started session that keeps being ticked with dt >= 1 ms reaches
\* PLAYING, whatever frequencies are handed over; and a session in PLAYING
\* that is ticked without a valid frequency from then on reaches GAME_OVER.
C36_Progress ==
  /\ (last.op = "start") ~> (gamePhase = "PLAYING")
  /\ (gamePhase = "PLAYING") ~> (gamePhase = "GAME_OVER" /\ isGameOver)

\* a session ticked in silence, at the end in frames of 500 ms, was lost
\* after more than 6 s without a voice
C36_Witness ==
  /\ game = "sequence"
  /\ last.op = "update"
  /\ last.dt = 500
  /\ gamePhase = "GAME_OVER"
  /\ graceSilenceTimer > 6000
  /\ life = 0

\* the schedule of a session: phase, the timers of the phases before
\* PLAYING, and the current note with its timer
Schedule(phase, playback, countdown, number, index, timer) ==
  [phase |-> phase, playback |-> playback, countdown |-> countdown,
   number |-> number, index |-> index, timer |-> timer]

\* the schedule after a tick of dt ms, from the schedule before it alone
ScheduleAfter(s, dt) ==
  CASE s.phase = "PLAYING_NOTES" ->
         IF s.playback + dt >= 4200
           THEN Schedule("COUNTDOWN", 0, 0, 3, 0, 0)
           ELSE [s EXCEPT !.playback = s.playback + dt]
    [] s.phase = "COUNTDOWN" ->
         IF s.countdown + dt < 1000
           THEN [s EXCEPT !.countdown = s.countdown + dt]
         ELSE IF s.number > 1
           THEN [s EXCEPT !.countdown = 0, !.number = s.number - 1]
         ELSE [s EXCEPT !.phase = "PLAYING", !.countdown = 0, !.number = 0]
    [] s.phase = "PLAYING" ->
         IF s.timer + dt >= ClaimedDurationMs(s.index)
           THEN [s EXCEPT !.index = (s.index + 1) % 5, !.timer = 0]
           ELSE [s EXCEPT !.timer = s.timer + dt]

\* a tick of a started sequence game that is not over
ScheduledTick ==
  /\ Tick
  /\ game = "sequence"
  /\ Len(sequenceNotes) = Len(NOTE_SEQUENCE)
  /\ ~isGameOver
  /\ gamePhase # "GAME_OVER"

\* C37: the frequencies have no influence on the note schedule.  On every
\* tick of a started session that is not over, the phase before PLAYING,
\* its timers, currentNoteIndex and currentNoteTimer after the tick are
\* given by one function of their values before the tick and of dt, in
\* which neither the frequencies nor energy, emotional state, life or
\* silence timer appear; so two sessions ticked with the same dt agree on
\* them for as long as both are in play.
C37_Schedule ==
  [][ ScheduledTick =>
        LET after ==
              ScheduleAfter(
                Schedule(gamePhase, initialPlaybackTimer, countdownTimer,
                         countdownNumber, currentNoteIndex,
                         currentNoteTimer), last'.dt)
        IN  /\ gamePhase # "PLAYING" => gamePhase' = after.phase
            /\ gamePhase' \in {after.phase, "GAME_OVER"}
            /\ initialPlaybackTimer' = after.playback
            /\ countdownTimer' = after.countdown
            /\ countdownNumber' = after.number
            /\ currentNoteIndex' = after.index
            /\ currentNoteTimer' = after.timer ]_vars

\* the first note ended on a silent tick inside the grace period: the
\* session stayed frozen and the note advanced
C37_Witness ==
  /\ game = "sequence"
  /\ gamePhase = "PLAYING"
  /\ last.op = "update"
  /\ last.freqsHz = <<>>
  /\ graceSilenceTimer = 150
  /\ survivalTime = dtSeconds(450)
  /\ currentNoteIndex = 1
  /\ currentNoteTimer = 0

\* C38: in every reachable state of the sequence game currentNoteIndex is
\* in 0..4; countdownNumber is 3 in PLAYING_NOTES, in 1..3 in COUNTDOWN and
\* 0 in PLAYING and after it; initialPlaybackNoteIndex is in 0..4 in
\* PLAYING_NOTES and -1 in every later phase.
C38_Ranges ==
  game = "sequence" =>
    /\ currentNoteIndex \in 0..4
    /\ countdownNumber \in 0..3
    /\ gamePhase \in {"PLAYING_NOTES", "COUNTDOWN", "PLAYING", "GAME_OVER"}
    /\ gamePhase = "PLAYING_NOTES" =>
         countdownNumber = 3 /\ initialPlaybackNoteIndex \in 0..4
    /\ gamePhase = "COUNTDOWN" =>
         countdownNumber \in 1..3 /\ initialPlaybackNoteIndex = 0 - 1
    /\ gamePhase \in {"PLAYING", "GAME_OVER"} =>
         countdownNumber = 0 /\ initialPlaybackNoteIndex = 0 - 1

\* the last note of the sequence is the current one of a session in play
C38_Witness ==
  /\ game = "sequence"
  /\ gamePhase = "PLAYING"
  /\ last.op = "update"
  /\ currentNoteIndex = 4
  /\ countdownNumber = 0
  /\ initialPlaybackNoteIndex = 0 - 1

\* the time of an oscillator event in ms after the call of playSequence
CueMs(time) == time * 100

\* C39: the reference cue and the scoring targets agree.  In a started
\* session the cue has one oscillator per note of NOTE_SEQUENCE, in the
\* order of the sequence, with the frequency sequenceNotes holds for that
\* note; the first starts with the session, each next one starts when the
\* one before it stops, each lasts for the duration of its note, and the
\* last stops 4200 ms after the start, the length of the PLAYING_NOTES
\* phase; while the phase lasts the cue has not ended and the demo index is
\* the number of the oscillator that sounds at initialPlaybackTimer.
C39_CueAgrees ==
  (game = "sequence" /\ Len(sequenceNotes) > 0) =>
    /\ Len(oscillators) = 5
    /\ Len(sequenceNotes) = 5
    /\ \A i \in 1..5 :
         /\ oscillators[i].frequency = sequenceNotes[i].frequency
         /\ CueMs(oscillators[i].stop - oscillators[i].start) =
              ClaimedDurationMs(i - 1)
    /\ oscillators[1].start = 0
    /\ \A i \in 1..4 : oscillators[i + 1].start = oscillators[i].stop
    /\ CueMs(oscillators[5].stop) = 4200
    /\ totalDuration = 4200
    /\ gamePhase = "PLAYING_NOTES" =>
         /\ initialPlaybackTimer < CueMs(oscillators[5].stop)
         /\ LET sounding == oscillators[initialPlaybackNoteIndex + 1]
            IN  /\ CueMs(sounding.start) <= initialPlaybackTimer
                /\ initialPlaybackTimer < CueMs(sounding.stop)

\* a tick of 1 ms brought the demonstration to 2100 ms, where the cue goes
\* from D4 to E4: the demo index went to E4 on that tick
C39_Witness ==
  /\ game = "sequence"
  /\ gamePhase = "PLAYING_NOTES"
  /\ last.op = "update"
  /\ last.dt = 1
  /\ initialPlaybackTimer = 2100
  /\ initialPlaybackNoteIndex = 3
  /\ CueMs(oscillators[4].start) = 2100
  /\ oscillators[4].frequency = sequenceNotes[4].frequency

\* the silent tick of the creature game falls inside the grace window
CreatureGraceTick ==
  /\ CreatureSilentTick
  /\ graceSilenceTimer + last'.dt < 300

\* name and frequency of a whole MIDI note in 48..83, as the claim derives
\* them: pitch class and octave number, 440 Hz at note 69
ClaimedTargetName(midi) ==
  noteNames[(midi % 12) + 1] \o toString(midi \div 12 - 1)

ClaimedTargetFreq(midi) == SemitonesToFrequency(midi - 69)

\* after startGame the target is a whole note in 48..83 and the name and
\* the frequency shown are those of that note
TargetCoherent ==
  /\ targetMidi \in 48..83
  /\ targetNoteName = ClaimedTargetName(targetMidi)
  /\ targetFreq = ClaimedTargetFreq(targetMidi)

\* what C40 says of ticks not ending in CALMA, of grace ticks and of the
\* target
CalmHoldOtherwise ==
  /\ (CreatureEvaluated /\ currentState' # "CALMA") => calmHoldSeconds' = 0
  /\ CreatureGraceTick => UNCHANGED calmHoldSeconds
  /\ (Tick /\ game = "creature" /\ targetMidi' # targetMidi) =>
       currentState' = "CALMA"
  /\ (game' = "creature" /\ targetMidi' # Null) => TargetCoherent'

\* C40 as stated: calmHoldSeconds grows by dt on every evaluated tick
\* ending in CALMA, is reset to 0 by every evaluated tick ending in
\* INESTABLE or CAOS and is left unchanged by silent ticks inside the
\* 300 ms grace window; the target changes only on a tick ending in CALMA,
\* and after startGame targetMidi is a whole note in 48..83 with
\* targetNoteName and targetFreq derived from it.
C40_Original ==
  [][ /\ (CreatureEvaluated /\ currentState' = "CALMA") =>
           calmHoldSeconds' = calmHoldSeconds + last'.dt
      /\ CalmHoldOtherwise
    ]_vars

\* C40 (amended): the same, except on the tick that changes the target
\* note: that tick ends in CALMA with the counter, this frame included, at
\* 2000 ms or more, and it leaves calmHoldSeconds at 0 instead of grown
\* by dt.
C40_Amended ==
  [][ /\ (CreatureEvaluated /\ currentState' = "CALMA") =>
           IF targetMidi' # targetMidi
             THEN /\ calmHoldSeconds + last'.dt >= 2000
                  /\ calmHoldSeconds' = 0
             ELSE calmHoldSeconds' = calmHoldSeconds + last'.dt
      /\ CalmHoldOtherwise
    ]_vars

\* the target C4 was held for two frames of 150 ms, then a silent frame
\* inside the grace window left the counter at 300 ms and the target with
\* its name and frequency
C40_Witness ==
  /\ game = "creature"
  /\ last.op = "update"
  /\ last.dt = 150
  /\ last.freqsHz = <<>>
  /\ graceSilenceTimer = 150
  /\ currentState = "CALMA"
  /\ calmHoldSeconds = 300
  /\ targetMidi = 60
  /\ targetNoteName = <<"C", "4">>
  /\ targetFreq = 2616
====
